---- MODULE Spec2Model ----
(***************************************************************************)
(* A model of the agent simulation engine of pokemon-alos:                 *)
(*   src/pokemon_alos.py      PokemonALOs   (the agent and its mutators)   *)
(*   src/items.py             Item, ItemManager                            *)
(*   src/simulation_engine.py SimulationEngine (the tick state machine)    *)
(*                                                                         *)
(* Positions are floats in the source.  The model holds them on a grid of  *)
(* 1/20 field unit, on which every distance, speed and margin of   *)
(* the source is a whole number: 0.1 = 2, 0.15 = 3, 0.2 = 4, 0.5 = 10,     *)
(* 0.6 = 12, 1.5 = 30, 3.0 = 60, 10.0 = 200.  A displacement along a unit  *)
(* vector is truncated toward zero onto the grid.  Probabilities are held  *)
(* in percent; a Bernoulli trial random.random() < p can succeed exactly   *)
(* when p > 0 and can fail exactly when p < 1.                             *)
(***************************************************************************)
EXTENDS Integers, Sequences, FiniteSets, TLC

VARIABLES
    pokemons,        \* SimulationEngine.pokemons: key -> agent record
    pokemon_list,    \* the keys of SimulationEngine.pokemons in insertion order
    items_on_field,  \* ItemManager.items_on_field: sequence of item records
    next_item,       \* identity of the next Item object to be constructed
    step_count,      \* SimulationEngine.step_count
    event_log,       \* SimulationEngine.event_log
    logged,          \* history: every entry ever passed to log_event, in order
    step_events,     \* the local list step_events of the running step()
    prob,            \* the engine's and the item manager's probabilities (percent)
    rag_scenarios,   \* what rag_system.get_interaction_scenarios() returns
    pc,              \* position of the running step(): idle, pairs, agents, event
    pi,              \* index of pokemon1 in the pair loop, of the agent in the agent loop
    pj,              \* index of pokemon2 in the pair loop
    result,          \* what the last call gave its caller
    calls,           \* how many calls the caller has made (LogSpec, ItemSpec)
    phase_positions  \* history: key -> position when the running step() entered
                     \* its pair loop (the present positions when none is running)

vars == << pokemons, pokemon_list, items_on_field, next_item, step_count, event_log, logged,
           step_events, prob, rag_scenarios, pc, pi, pj, result, calls,
           phase_positions >>

---------------------------------------------------------------------------
(* Bounds of the model *)

\* step() is called at most MaxTick times in a behaviour
MaxTick == 2

\* log_event is called at most MaxLogCalls times in a behaviour of LogSpec
MaxLogCalls == 4

---------------------------------------------------------------------------
(* Program constants *)

FieldW == 200                \* 10.0: update_position's upper clamp (x)
FieldH == 200                \* 10.0: update_position's upper clamp (y)
MaxHp == 100
MaxEnergy == 100
MinRel == -100
MaxRel == 100
MaxInventory == 3            \* PokemonALOs.max_inventory
MaxItemsOnField == 5         \* ItemManager.max_items_on_field
MaxLog == 200                \* log_event keeps at most 200 entries
MaxAbilities == 6            \* _practice_move's cap
InteractD2 == 900            \* (1.5 * 20)^2: step()'s distance < 1.5
AwareD2 == 3600              \* (3.0 * 20)^2: step()'s distance < 3.0
PickupD2 == 144              \* (0.6 * 20)^2: step()'s pickup_distance
FallbackDamage == 15
DamageLo == 10
DamageHi == 25

None == << >>                \* Python's None (an unset position, an absent result)

Moods == {"normal", "happy", "angry", "tired", "excited"}

\* the keys of the three agents main.py creates
AllKeys == << "pikachu", "meowth", "sprigatito" >>

Max(a, b) == IF a >= b THEN a ELSE b
Min(a, b) == IF a <= b THEN a ELSE b

---------------------------------------------------------------------------
(* PokemonALOs: the agent's own mutators, as functions on the agent record *)

\* update_position with the floor of the x axis left out (C3 tells it apart)
update_position_no_floor(p, dx, dy) ==
    [p EXCEPT !.position = << Min(FieldW, p.position[1] + dx),
                              Max(0, Min(FieldH, p.position[2] + dy)) >>]

\* update_position(dx, dy): each axis clamped on its own
update_position(p, dx, dy) ==
    [p EXCEPT !.position = << Max(0, Min(FieldW, p.position[1] + dx)),
                              Max(0, Min(FieldH, p.position[2] + dy)) >>]

\* floor(|d| * speed / sqrt(d2)): the component of a speed-long step
Component(d, d2, speed) ==
    LET k == CHOOSE c \in 0..speed :
                 /\ c * c * d2 <= d * d * speed * speed
                 /\ (c + 1) * (c + 1) * d2 > d * d * speed * speed
    IN  IF d >= 0 THEN k ELSE -k

Dist2(a, b) == (b[1] - a[1]) * (b[1] - a[1]) + (b[2] - a[2]) * (b[2] - a[2])

\* move_towards without its test dist > 0: at distance 0 the step goes along
\* the x axis (C34 tells it apart)
move_towards_unguarded(p, target_pos, speed) ==
    LET dx == target_pos[1] - p.position[1]
        dy == target_pos[2] - p.position[2]
        d2 == dx * dx + dy * dy
    IN  IF d2 > 0
        THEN update_position(p, Component(dx, d2, speed), Component(dy, d2, speed))
        ELSE update_position(p, speed, 0)

\* move_towards(target_pos, speed)
move_towards(p, target_pos, speed) ==
    LET dx == target_pos[1] - p.position[1]
        dy == target_pos[2] - p.position[2]
        d2 == dx * dx + dy * dy
    IN  IF d2 > 0
        THEN update_position(p, Component(dx, d2, speed), Component(dy, d2, speed))
        ELSE p

\* move_away(target_pos, speed)
move_away(p, target_pos, speed) ==
    LET dx == p.position[1] - target_pos[1]
        dy == p.position[2] - target_pos[2]
        d2 == dx * dx + dy * dy
    IN  IF d2 > 0
        THEN update_position(p, Component(dx, d2, speed), Component(dy, d2, speed))
        ELSE p

\* random_walk(speed), the two draws given
random_walk(p, dx, dy) == update_position(p, dx, dy)

\* take_damage with the floor of hp left out (C1 tells it apart)
take_damage_no_floor(p, damage) ==
    LET hp == p.hp - damage
    IN  [p EXCEPT !.hp = hp,
                  !.energy = Max(0, p.energy - 5),
                  !.mood = IF hp < 30 THEN "tired"
                           ELSE IF hp < 60 THEN "angry" ELSE p.mood]

\* take_damage testing hp < 60 before hp < 30 (C30 tells it apart)
take_damage_angry_first(p, damage) ==
    LET hp == Max(0, p.hp - damage)
    IN  [p EXCEPT !.hp = hp,
                  !.energy = Max(0, p.energy - 5),
                  !.mood = IF hp < 60 THEN "angry"
                           ELSE IF hp < 30 THEN "tired" ELSE p.mood]

\* take_damage(damage)
take_damage(p, damage) ==
    LET hp == Max(0, p.hp - damage)
    IN  [p EXCEPT !.hp = hp,
                  !.energy = Max(0, p.energy - 5),
                  !.mood = IF hp < 30 THEN "tired"
                           ELSE IF hp < 60 THEN "angry" ELSE p.mood]

\* heal naming a mood outside the enumeration (C22 tells it apart)
heal_relieved(p, amount) ==
    LET hp == Min(MaxHp, p.hp + amount)
    IN  [p EXCEPT !.hp = hp,
                  !.mood = IF hp > 70 THEN "relieved" ELSE p.mood]

\* heal(amount)
heal(p, amount) ==
    LET hp == Min(MaxHp, p.hp + amount)
    IN  [p EXCEPT !.hp = hp,
                  !.mood = IF hp > 70 THEN "happy" ELSE p.mood]

\* rest testing the energy it found, not the energy it leaves (C31 tells it
\* apart)
rest_by_old_energy(p) ==
    LET energy == Min(MaxEnergy, p.energy + 10)
    IN  [p EXCEPT !.energy = energy,
                  !.hp = Min(MaxHp, p.hp + 3),
                  !.mood = IF p.energy > 80 THEN "normal" ELSE p.mood]

\* rest raising the energy only (C38 tells it apart)
rest_energy_only(p) ==
    LET energy == Min(MaxEnergy, p.energy + 10)
    IN  [p EXCEPT !.energy = energy,
                  !.mood = IF energy > 80 THEN "normal" ELSE p.mood]

\* rest()
rest(p) ==
    LET energy == Min(MaxEnergy, p.energy + 10)
    IN  [p EXCEPT !.energy = energy,
                  !.hp = Min(MaxHp, p.hp + 3),
                  !.mood = IF energy > 80 THEN "normal" ELSE p.mood]

InSeq(x, s) == \E n \in 1..Len(s) : s[n] = x

\* learn_move(move_name)
learn_move(p, move_name) ==
    IF ~InSeq(move_name, p.current_abilities)
    THEN [p EXCEPT !.current_abilities = Append(p.current_abilities, move_name),
                   !.mood = "excited"]
    ELSE p

\* get_relationship(other_key)
get_relationship(p, other_key) ==
    IF other_key \in DOMAIN p.relationships THEN p.relationships[other_key] ELSE 0

\* update_relationship with the clamp left out (C2 tells it apart)
update_relationship_no_clamp(p, other_key, change) ==
    LET current == get_relationship(p, other_key)
    IN  [p EXCEPT !.relationships =
            [k \in (DOMAIN p.relationships) \cup {other_key} |->
                IF k = other_key THEN current + change ELSE p.relationships[k]]]

\* update_relationship(other_key, change)
update_relationship(p, other_key, change) ==
    LET current == get_relationship(p, other_key)
        new == Max(MinRel, Min(MaxRel, current + change))
    IN  [p EXCEPT !.relationships =
            [k \in (DOMAIN p.relationships) \cup {other_key} |->
                IF k = other_key THEN new ELSE p.relationships[k]]]

\* add_item's test off by one: <= for < (C4 tells it apart)
add_item_ok_off_by_one(p) == Len(p.inventory) <= p.max_inventory

\* add_item(item): the value returned, and the agent after the call
add_item_ok(p) == Len(p.inventory) < p.max_inventory
add_item(p, item) ==
    IF add_item_ok(p)
    THEN [p EXCEPT !.inventory = Append(p.inventory, item)]
    ELSE p

---------------------------------------------------------------------------
(* Item *)

\* Item.use applying the whole value of a mixed item to hp and to energy, not
\* half of it (C32 tells it apart)
use_mixed_whole(item, p) ==
    CASE item.effect_type = "hp" -> heal(p, item.effect_value)
      [] item.effect_type = "energy" ->
            [p EXCEPT !.energy = Min(MaxEnergy, p.energy + item.effect_value)]
      [] item.effect_type = "mood" ->
            IF p.mood \in {"angry", "tired"}
            THEN [p EXCEPT !.mood = "happy"]
            ELSE [p EXCEPT !.mood = "excited"]
      [] item.effect_type = "mixed" ->
            LET h == heal(p, item.effect_value)
            IN  [h EXCEPT !.energy = Min(MaxEnergy, h.energy + item.effect_value)]
      [] OTHER -> p

\* Item.use(pokemon): the agent after the item's effect
use(item, p) ==
    CASE item.effect_type = "hp" -> heal(p, item.effect_value)
      [] item.effect_type = "energy" ->
            [p EXCEPT !.energy = Min(MaxEnergy, p.energy + item.effect_value)]
      [] item.effect_type = "mood" ->
            IF p.mood \in {"angry", "tired"}
            THEN [p EXCEPT !.mood = "happy"]
            ELSE [p EXCEPT !.mood = "excited"]
      [] item.effect_type = "mixed" ->
            LET h == heal(p, item.effect_value \div 2)
            IN  [h EXCEPT !.energy = Min(MaxEnergy, h.energy + item.effect_value \div 2)]
      [] OTHER -> p

\* Item.use(pokemon): the description it returns, by its kind, the agent
\* and the amount it names (0 where the text names none)
use_text(item, p) ==
    CASE item.effect_type = "hp" ->
            << "hp_restored", p.key, use(item, p).hp - p.hp >>
      [] item.effect_type = "energy" ->
            << "energy_restored", p.key, use(item, p).energy - p.energy >>
      [] item.effect_type = "mood" ->
            IF p.mood \in {"angry", "tired"}
            THEN << "mood_better", p.key, 0 >>
            ELSE << "cheered_up", p.key, 0 >>
      [] item.effect_type = "mixed" -> << "recovered", p.key, 0 >>
      [] OTHER -> << "used", p.key, 0 >>

\* a sequence without its element at position n (list.pop(n - 1))
RemoveAt(s, n) == [m \in 1..(Len(s) - 1) |-> IF m < n THEN s[m] ELSE s[m + 1]]

\* use_item without the test 0 <= item_index: a negative index counts from
\* the end of the list, as list.pop takes it (C15 tells it apart)
use_item_negative_index(p, item_index) ==
    LET n == IF item_index < 0 THEN Len(p.inventory) + item_index + 1
             ELSE item_index + 1
    IN  IF 1 <= n /\ n <= Len(p.inventory)
        THEN use(p.inventory[n], [p EXCEPT !.inventory = RemoveAt(p.inventory, n)])
        ELSE p

\* use_item(item_index): the agent after the call (item_index counts from 0)
use_item(p, item_index) ==
    IF 0 <= item_index /\ item_index < Len(p.inventory)
    THEN use(p.inventory[item_index + 1],
             [p EXCEPT !.inventory = RemoveAt(p.inventory, item_index + 1)])
    ELSE p

\* use_item(item_index): the value it returns (None when out of range)
use_item_result(p, item_index) ==
    IF 0 <= item_index /\ item_index < Len(p.inventory)
    THEN use_text(p.inventory[item_index + 1], p)
    ELSE None

\* the index (from 0) of the first inventory item of one of the kinds, or -1
FirstOfKind(p, kinds) ==
    LET hits == {n \in 1..Len(p.inventory) : p.inventory[n].effect_type \in kinds}
    IN  IF hits = {} THEN -1
        ELSE (CHOOSE n \in hits : \A m \in hits : n <= m) - 1

\* auto_use_index with the energy rule tried before the hp rule (C11 tells it
\* apart)
auto_use_index_energy_first(p) ==
    LET i1 == IF p.hp <= 50 THEN FirstOfKind(p, {"hp", "mixed"}) ELSE -1
        i2 == IF p.energy <= 30 THEN FirstOfKind(p, {"energy", "mixed"}) ELSE -1
        i3 == IF p.mood \in {"angry", "tired"} THEN FirstOfKind(p, {"mood"}) ELSE -1
    IN  IF i2 >= 0 THEN i2 ELSE IF i1 >= 0 THEN i1 ELSE i3

\* auto_use_index whose energy rule does not test the energy (C12 tells it
\* apart)
auto_use_index_no_energy_test(p) ==
    LET i1 == IF p.hp <= 50 THEN FirstOfKind(p, {"hp", "mixed"}) ELSE -1
        i2 == FirstOfKind(p, {"energy", "mixed"})
        i3 == IF p.mood \in {"angry", "tired"} THEN FirstOfKind(p, {"mood"}) ELSE -1
    IN  IF i1 >= 0 THEN i1 ELSE IF i2 >= 0 THEN i2 ELSE i3

\* auto_use_item(): the index (from 0) of the item it uses, or -1.  The three
\* rules are three separate if statements: a rule whose loop finds no item
\* falls through to the next one.
auto_use_index(p) ==
    LET i1 == IF p.hp <= 50 THEN FirstOfKind(p, {"hp", "mixed"}) ELSE -1
        i2 == IF p.energy <= 30 THEN FirstOfKind(p, {"energy", "mixed"}) ELSE -1
        i3 == IF p.mood \in {"angry", "tired"} THEN FirstOfKind(p, {"mood"}) ELSE -1
    IN  IF i1 >= 0 THEN i1 ELSE IF i2 >= 0 THEN i2 ELSE i3

\* auto_use_item whose loops do not return: every rule that finds an item
\* uses it (C13 tells it apart)
auto_use_item_every_rule(p) ==
    LET a == IF p.hp <= 50
             THEN use_item(p, FirstOfKind(p, {"hp", "mixed"})) ELSE p
        b == IF p.energy <= 30
             THEN use_item(a, FirstOfKind(a, {"energy", "mixed"})) ELSE a
    IN  IF p.mood \in {"angry", "tired"}
        THEN use_item(b, FirstOfKind(b, {"mood"})) ELSE b

\* auto_use_item(): the agent after the call, and the value returned
auto_use_item(p) == use_item(p, auto_use_index(p))
auto_use_item_result(p) == use_item_result(p, auto_use_index(p))

---------------------------------------------------------------------------
(* ItemManager *)

\* BERRY_TYPES, by the English names of the berries
BERRY_TYPES ==
    [ Oran   |-> [effect_type |-> "hp",     effect_value |-> 20],
      Sitrus |-> [effect_type |-> "hp",     effect_value |-> 40],
      Cheri  |-> [effect_type |-> "energy", effect_value |-> 30],
      Pecha  |-> [effect_type |-> "mood",   effect_value |-> 1],
      Nanab  |-> [effect_type |-> "mixed",  effect_value |-> 30],
      Persim |-> [effect_type |-> "energy", effect_value |-> 50],
      Leppa  |-> [effect_type |-> "hp",     effect_value |-> 15] ]

\* Item(name, ...) as create_random_berry builds it: position None
Item(id, berry_name) ==
    [ id |-> id, name |-> berry_name,
      effect_type |-> BERRY_TYPES[berry_name].effect_type,
      effect_value |-> BERRY_TYPES[berry_name].effect_value,
      position |-> None ]

\* random.random() < pct / 100, for a draw r in percent
Below(r, pct) == r < pct

\* spawn_item without its test of the capacity (C5 tells it apart)
spawn_item_uncapped(field, id, spawn_probability, r, berry_name, pos) ==
    IF Below(r, spawn_probability)
    THEN Append(field, [Item(id, berry_name) EXCEPT !.position = pos])
    ELSE field

\* spawn_item(): the field after the call; r, berry_name and pos are its draws
spawn_item(field, id, spawn_probability, r, berry_name, pos) ==
    IF Len(field) >= MaxItemsOnField THEN field
    ELSE IF Below(r, spawn_probability)
         THEN Append(field, [Item(id, berry_name) EXCEPT !.position = pos])
         ELSE field

\* spawn_item(): whether it returns an item
spawn_item_result(field, spawn_probability, r) ==
    Len(field) < MaxItemsOnField /\ Below(r, spawn_probability)

\* check_pickup returning the nearest item within the distance, not the first
\* (C14 tells it apart)
check_pickup_index_nearest(field, p, d2) ==
    LET hits == {n \in 1..Len(field) :
                    /\ field[n].position # None
                    /\ Dist2(p.position, field[n].position) < d2}
    IN  IF hits = {} THEN 0
        ELSE CHOOSE n \in hits : \A m \in hits :
                 \/ Dist2(p.position, field[n].position)
                        < Dist2(p.position, field[m].position)
                 \/ Dist2(p.position, field[n].position)
                        = Dist2(p.position, field[m].position) /\ n <= m

\* check_pickup(pokemon, pickup_distance): the position in the field of the
\* item it returns, or 0 for None; d2 is the squared pickup distance
check_pickup_index(field, p, d2) ==
    LET hits == {n \in 1..Len(field) :
                    /\ field[n].position # None
                    /\ Dist2(p.position, field[n].position) < d2}
    IN  IF hits = {} THEN 0 ELSE CHOOSE n \in hits : \A m \in hits : n <= m

\* check_pickup returning the item without removing it from the field (C35
\* tells it apart)
check_pickup_keep_on_field(field, p, d2) == field

\* check_pickup: the field after the call
check_pickup(field, p, d2) ==
    LET n == check_pickup_index(field, p, d2)
    IN  IF n = 0 THEN field ELSE RemoveAt(field, n)

---------------------------------------------------------------------------
(* SimulationEngine.  Its methods are functions on a record w of the fields  *)
(* they read and write: pokemons, pokemon_list, items_on_field, next_item, step_count,     *)
(* event_log, logged, step_events, prob, rag_scenarios, and two fields for   *)
(* the way a call ends: ret (the value returned) and raised (an exception    *)
(* left the method).                                                         *)

\* log_event dropping the newest entry, not the oldest (C6 tells it apart)
log_event_drop_newest(w, event) ==
    LET log_entry == [step |-> w.step_count, event |-> event]
        appended == Append(w.event_log, log_entry)
    IN  [w EXCEPT !.event_log = IF Len(appended) > MaxLog
                                THEN SubSeq(appended, 1, MaxLog) ELSE appended,
                  !.logged = Append(w.logged, log_entry)]

\* log_event(event): append, then drop the oldest entry when over 200
log_event(w, event) ==
    LET log_entry == [step |-> w.step_count, event |-> event]
        appended == Append(w.event_log, log_entry)
    IN  [w EXCEPT !.event_log = IF Len(appended) > MaxLog THEN Tail(appended)
                                ELSE appended,
                  !.logged = Append(w.logged, log_entry)]

\* get_recent_logs(n): event_log[-n:]
get_recent_logs(log, n) ==
    IF n = 0 THEN log   \* Python: log[-0:] is the whole list
    ELSE SubSeq(log, Max(1, Len(log) - n + 1), Len(log))

\* lines 201-202 and 230-231 with the second agent's update left out (C36
\* tells it apart)
BothRelate_first_only(w, k1, k2, change) ==
    [w EXCEPT !.pokemons =
        [w.pokemons EXCEPT ![k1] = update_relationship(@, k2, change)]]

\* pokemon1.update_relationship(pokemon2.key, change), then
\* pokemon2.update_relationship(pokemon1.key, change)
BothRelate(w, k1, k2, change) ==
    [w EXCEPT !.pokemons =
        [w.pokemons EXCEPT ![k1] = update_relationship(@, k2, change),
                           ![k2] = update_relationship(@, k1, change)]]

\* lines 236-241 without the two mood assignments (C9 tells it apart)
BothCheer_heal_only(w, k1, k2) ==
    [w EXCEPT !.pokemons =
        [w.pokemons EXCEPT ![k1] = heal(@, 5), ![k2] = heal(@, 5)]]

\* lines 236-241: both moods set to happy, then both healed by 5
BothCheer(w, k1, k2) ==
    [w EXCEPT !.pokemons =
        [w.pokemons EXCEPT ![k1] = heal([@ EXCEPT !.mood = "happy"], 5),
                           ![k2] = heal([@ EXCEPT !.mood = "happy"], 5)]]

\* _simulate_battle whose fallback applies the rolled damage, not the flat 15
\* (C8 tells it apart)
_simulate_battle_rolled_fallback(w, k1, k2, d) ==
    IF ~d.ctx THEN [w EXCEPT !.raised = TRUE]
    ELSE LET l1 == IF d.narr THEN w ELSE log_event(w, << "fought", k1, k2 >>)
             hit == [l1 EXCEPT !.pokemons =
                        [l1.pokemons EXCEPT ![k1] = take_damage(@, d.damage2),
                                            ![k2] = take_damage(@, d.damage1)]]
             rel == BothRelate(hit, k1, k2, -5)
             l2 == IF d.narr
                   THEN log_event(log_event(rel, << "battle", k1, k2 >>),
                                  << "narration", k1, k2 >>)
                   ELSE rel
         IN  [l2 EXCEPT !.ret = << "Battle", k1, k2 >>]

\* _simulate_battle applying each roll to the agent it was drawn for, not to
\* the other one (C20 tells it apart)
_simulate_battle_own_roll(w, k1, k2, d) ==
    IF ~d.ctx THEN [w EXCEPT !.raised = TRUE]
    ELSE IF d.narr
    THEN LET hit == [w EXCEPT !.pokemons =
                        [w.pokemons EXCEPT ![k1] = take_damage(@, d.damage1),
                                           ![k2] = take_damage(@, d.damage2)]]
             rel == BothRelate(hit, k1, k2, -5)
             l1 == log_event(rel, << "battle", k1, k2 >>)
             l2 == log_event(l1, << "narration", k1, k2 >>)
         IN  [l2 EXCEPT !.ret = << "Battle", k1, k2 >>]
    ELSE LET l1 == log_event(w, << "fought", k1, k2 >>)
             hit == [l1 EXCEPT !.pokemons =
                        [l1.pokemons EXCEPT ![k1] = take_damage(@, FallbackDamage),
                                            ![k2] = take_damage(@, FallbackDamage)]]
             rel == BothRelate(hit, k1, k2, -5)
         IN  [rel EXCEPT !.ret = << "Battle", k1, k2 >>]

\* _simulate_battle(pokemon1, pokemon2).  d gives what the call meets:
\* d.ctx, whether query_context returns; d.narr, whether simulate_interaction
\* returns; d.damage1 and d.damage2, the two random.randint(10, 25).
_simulate_battle(w, k1, k2, d) ==
    IF ~d.ctx THEN [w EXCEPT !.raised = TRUE]      \* line 179 is outside the try
    ELSE IF d.narr
    THEN LET hit == [w EXCEPT !.pokemons =
                        [w.pokemons EXCEPT ![k1] = take_damage(@, d.damage2),
                                           ![k2] = take_damage(@, d.damage1)]]
             rel == BothRelate(hit, k1, k2, -5)
             l1 == log_event(rel, << "battle", k1, k2 >>)
             l2 == log_event(l1, << "narration", k1, k2 >>)
         IN  [l2 EXCEPT !.ret = << "Battle", k1, k2 >>]
    ELSE LET l1 == log_event(w, << "fought", k1, k2 >>)
             hit == [l1 EXCEPT !.pokemons =
                        [l1.pokemons EXCEPT ![k1] = take_damage(@, FallbackDamage),
                                            ![k2] = take_damage(@, FallbackDamage)]]
             rel == BothRelate(hit, k1, k2, -5)
         IN  [rel EXCEPT !.ret = << "Battle", k1, k2 >>]

\* _simulate_friendship whose fallback also cheers and heals (C10 tells it apart)
_simulate_friendship_healing_fallback(w, k1, k2, d) ==
    IF ~d.ctx THEN [w EXCEPT !.raised = TRUE]
    ELSE LET l1 == IF d.narr THEN w ELSE log_event(w, << "mingled", k1, k2 >>)
             glad == BothCheer(BothRelate(l1, k1, k2, 10), k1, k2)
             l2 == IF d.narr
                   THEN log_event(log_event(glad, << "befriended", k1, k2 >>),
                                  << "narration", k1, k2 >>)
                   ELSE glad
         IN  [l2 EXCEPT !.ret = << "Friendship", k1, k2 >>]

\* _simulate_friendship(pokemon1, pokemon2)
_simulate_friendship(w, k1, k2, d) ==
    IF ~d.ctx THEN [w EXCEPT !.raised = TRUE]      \* line 220 is outside the try
    ELSE IF d.narr
    THEN LET rel == BothRelate(w, k1, k2, 10)
             glad == BothCheer(rel, k1, k2)
             l1 == log_event(glad, << "befriended", k1, k2 >>)
             l2 == log_event(l1, << "narration", k1, k2 >>)
         IN  [l2 EXCEPT !.ret = << "Friendship", k1, k2 >>]
    ELSE LET l1 == log_event(w, << "mingled", k1, k2 >>)
             rel == BothRelate(l1, k1, k2, 10)
         IN  [rel EXCEPT !.ret = << "Friendship", k1, k2 >>]

\* _handle_interaction testing the friendly thresholds before the hostile
\* ones (C17 tells it apart)
_handle_interaction_friendly_first(w, k1, k2, d) ==
    LET relationship1 == get_relationship(w.pokemons[k1], k2)
        relationship2 == get_relationship(w.pokemons[k2], k1)
        none == [w EXCEPT !.ret = None]
    IN  IF relationship1 > 30 \/ relationship2 > 30
        THEN IF Below(d.r, w.prob.friendship * 2)
             THEN _simulate_friendship(w, k1, k2, d) ELSE none
        ELSE IF relationship1 < -30 \/ relationship2 < -30
        THEN IF Below(d.r, w.prob.battle * 2)
             THEN _simulate_battle(w, k1, k2, d) ELSE none
        ELSE IF Below(d.r, w.prob.battle)
             THEN _simulate_battle(w, k1, k2, d)
             ELSE IF Below(d.r, w.prob.battle + w.prob.friendship)
                  THEN _simulate_friendship(w, k1, k2, d) ELSE none

\* _handle_interaction taking the neutral branch whatever the relationships
\* are (C37 tells it apart)
_handle_interaction_neutral_always(w, k1, k2, d) ==
    IF Below(d.r, w.prob.battle)
    THEN _simulate_battle(w, k1, k2, d)
    ELSE IF Below(d.r, w.prob.battle + w.prob.friendship)
         THEN _simulate_friendship(w, k1, k2, d)
         ELSE [w EXCEPT !.ret = None]

\* _handle_interaction(pokemon1, pokemon2); d.r is its random.random()
_handle_interaction(w, k1, k2, d) ==
    LET relationship1 == get_relationship(w.pokemons[k1], k2)
        relationship2 == get_relationship(w.pokemons[k2], k1)
        none == [w EXCEPT !.ret = None]
    IN  IF relationship1 < -30 \/ relationship2 < -30
        THEN IF Below(d.r, w.prob.battle * 2)
             THEN _simulate_battle(w, k1, k2, d) ELSE none
        ELSE IF relationship1 > 30 \/ relationship2 > 30
        THEN IF Below(d.r, w.prob.friendship * 2)
             THEN _simulate_friendship(w, k1, k2, d) ELSE none
        ELSE IF Below(d.r, w.prob.battle)
             THEN _simulate_battle(w, k1, k2, d)
             ELSE IF Below(d.r, w.prob.battle + w.prob.friendship)
                  THEN _simulate_friendship(w, k1, k2, d) ELSE none

\* _handle_awareness applied from both sides: the second agent moves by its
\* own view as well (C27 tells it apart)
_handle_awareness_both_move(w, k1, k2) ==
    LET p1 == w.pokemons[k1]
        p2 == w.pokemons[k2]
        moved(p, o, target) ==
            IF get_relationship(p, o) < -30 THEN move_towards(p, target, 4)
            ELSE IF get_relationship(p, o) > 50 THEN move_towards(p, target, 3)
            ELSE IF p.mood = "tired" THEN move_away(p, target, 2)
            ELSE p
    IN  [w EXCEPT !.pokemons =
            [w.pokemons EXCEPT ![k1] = moved(p1, k2, p2.position),
                               ![k2] = moved(p2, k1, p1.position)]]

\* _handle_awareness testing the mood before the relationship (C28 tells it
\* apart)
_handle_awareness_tired_first(w, k1, k2) ==
    LET p1 == w.pokemons[k1]
        relationship == get_relationship(p1, k2)
        target == w.pokemons[k2].position
    IN  [w EXCEPT !.pokemons[k1] =
            IF p1.mood = "tired" THEN move_away(p1, target, 2)
            ELSE IF relationship < -30 THEN move_towards(p1, target, 4)
            ELSE IF relationship > 50 THEN move_towards(p1, target, 3)
            ELSE p1]

\* _handle_awareness(pokemon1, pokemon2)
_handle_awareness(w, k1, k2) ==
    LET p1 == w.pokemons[k1]
        relationship == get_relationship(p1, k2)
        target == w.pokemons[k2].position
    IN  [w EXCEPT !.pokemons[k1] =
            IF relationship < -30 THEN move_towards(p1, target, 4)
            ELSE IF relationship > 50 THEN move_towards(p1, target, 3)
            ELSE IF p1.mood = "tired" THEN move_away(p1, target, 2)
            ELSE p1]

\* potential_moves of _practice_move
potential_moves(key) ==
    CASE key = "pikachu" -> << "volt_tackle", "electro_ball", "surf" >>
      [] key = "meowth" -> << "night_slash", "foul_play", "stored_power" >>
      [] key = "sprigatito" -> << "energy_ball", "solar_beam", "leech_seed" >>
      [] OTHER -> << >>

\* [m for m in moves if m not in known]
Unknown(moves, known) == SelectSeq(moves, LAMBDA m : ~InSeq(m, known))

\* _practice_move without its test of the cap of 6 (C21 tells it apart)
_practice_move_uncapped(w, k, d) ==
    LET p == w.pokemons[k]
        new_moves == Unknown(potential_moves(k), p.current_abilities)
    IN  IF Len(new_moves) > 0 /\ Below(d.r3, 30)
        THEN LET new_move == new_moves[(d.pick % Len(new_moves)) + 1]
             IN  log_event([w EXCEPT !.pokemons[k] = learn_move(p, new_move)],
                           << "learned", k, new_move >>)
        ELSE w

\* _practice_move(pokemon); d.r3 is its random.random(), d.pick its random.choice
_practice_move(w, k, d) ==
    LET p == w.pokemons[k]
        new_moves == Unknown(potential_moves(k), p.current_abilities)
    IN  IF Len(p.current_abilities) >= MaxAbilities THEN w
        ELSE IF Len(new_moves) > 0 /\ Below(d.r3, 30)
        THEN LET new_move == new_moves[(d.pick % Len(new_moves)) + 1]
             IN  log_event([w EXCEPT !.pokemons[k] = learn_move(p, new_move)],
                           << "learned", k, new_move >>)
        ELSE w

\* _handle_individual_action passing over an agent whose hp is 0 (C23 tells
\* it apart)
_handle_individual_action_skip_fainted(w, k, d) ==
    LET p == w.pokemons[k]
    IN  IF p.hp = 0 THEN w
        ELSE IF p.energy < 30
        THEN LET r == [w EXCEPT !.pokemons[k] = rest(p)]
             IN  IF Below(d.r1, 10) THEN log_event(r, << "resting", k >>) ELSE r
        ELSE IF p.hp < 40
        THEN LET r == [w EXCEPT !.pokemons[k] = rest(p)]
             IN  IF Below(d.r1, 15) THEN log_event(r, << "healing", k >>) ELSE r
        ELSE LET m == [w EXCEPT !.pokemons[k] = random_walk(p, d.dx, d.dy)]
             IN  IF Below(d.r2, w.prob.learn) THEN _practice_move(m, k, d) ELSE m

\* _handle_individual_action whose walk is not an else branch: an agent that
\* rested walks as well (C29 tells it apart)
_handle_individual_action_walk_always(w, k, d) ==
    LET p == w.pokemons[k]
        r == IF p.energy < 30
             THEN LET e == [w EXCEPT !.pokemons[k] = rest(p)]
                  IN  IF Below(d.r1, 10) THEN log_event(e, << "resting", k >>) ELSE e
             ELSE IF p.hp < 40
             THEN LET h == [w EXCEPT !.pokemons[k] = rest(p)]
                  IN  IF Below(d.r1, 15) THEN log_event(h, << "healing", k >>) ELSE h
             ELSE w
        m == [r EXCEPT !.pokemons[k] = random_walk(@, d.dx, d.dy)]
    IN  IF Below(d.r2, w.prob.learn) THEN _practice_move(m, k, d) ELSE m

\* _handle_individual_action(pokemon); d.r1 is the random.random() of the
\* branch taken, d.dx and d.dy the draws of random_walk(speed=0.15), d.r2 the
\* draw against learn_probability
_handle_individual_action(w, k, d) ==
    LET p == w.pokemons[k]
    IN  IF p.energy < 30
        THEN LET r == [w EXCEPT !.pokemons[k] = rest(p)]
             IN  IF Below(d.r1, 10) THEN log_event(r, << "resting", k >>) ELSE r
        ELSE IF p.hp < 40
        THEN LET r == [w EXCEPT !.pokemons[k] = rest(p)]
             IN  IF Below(d.r1, 15) THEN log_event(r, << "healing", k >>) ELSE r
        ELSE LET m == [w EXCEPT !.pokemons[k] = random_walk(p, d.dx, d.dy)]
             IN  IF Below(d.r2, w.prob.learn) THEN _practice_move(m, k, d) ELSE m

\* lines 88-96 without the else branch: an item picked up by an agent whose
\* inventory is full is dropped (C19 tells it apart)
Pickup_lose_when_full(w, k) ==
    LET p == w.pokemons[k]
        n == check_pickup_index(w.items_on_field, p, PickupD2)
    IN  IF n = 0 THEN w
        ELSE LET picked_item == w.items_on_field[n]
                 taken == [w EXCEPT !.items_on_field =
                              check_pickup(w.items_on_field, p, PickupD2)]
             IN  IF add_item_ok(p)
                 THEN log_event([taken EXCEPT !.pokemons[k] = add_item(p, picked_item)],
                                << "picked", k, picked_item.name >>)
                 ELSE taken

\* step(), lines 88-96: pick up an item, keep it or use it at once
Pickup(w, k) ==
    LET p == w.pokemons[k]
        n == check_pickup_index(w.items_on_field, p, PickupD2)
    IN  IF n = 0 THEN w
        ELSE LET picked_item == w.items_on_field[n]
                 taken == [w EXCEPT !.items_on_field =
                              check_pickup(w.items_on_field, p, PickupD2)]
             IN  IF add_item_ok(p)
                 THEN log_event([taken EXCEPT !.pokemons[k] = add_item(p, picked_item)],
                                << "picked", k, picked_item.name >>)
                 ELSE log_event([taken EXCEPT !.pokemons[k] = use(picked_item, p)],
                                use_text(picked_item, p))

\* step(), lines 98-101: auto_use_item, logged when it used something
AutoUse(w, k) ==
    LET p == w.pokemons[k]
        auto_use_result == auto_use_item_result(p)
    IN  IF auto_use_result # None
        THEN log_event([w EXCEPT !.pokemons[k] = auto_use_item(p)], auto_use_result)
        ELSE w

\* _trigger_random_event moving both sampled agents toward each other (C33
\* tells it apart)
_trigger_random_event_both_meet(w, d) ==
    IF Len(w.rag_scenarios) > 0
    THEN LET scenario == w.rag_scenarios[(d.pick % Len(w.rag_scenarios)) + 1]
             l == log_event(w, << "random_event", scenario >>)
             a == w.pokemon_list[d.first]
             b == w.pokemon_list[d.second]
             moved == IF Min(2, Len(w.pokemon_list)) = 2
                      THEN [l EXCEPT !.pokemons[a] =
                               move_towards(@, l.pokemons[b].position, 10),
                                     !.pokemons[b] =
                               move_towards(@, l.pokemons[a].position, 10)]
                      ELSE l
         IN  [moved EXCEPT !.ret = << "Random Event", scenario >>]
    ELSE [w EXCEPT !.ret = None]

\* _trigger_random_event(); d.first and d.second are the two agents
\* random.sample draws (positions in pokemon_list), d.pick the random.choice
_trigger_random_event(w, d) ==
    IF Len(w.rag_scenarios) > 0
    THEN LET scenario == w.rag_scenarios[(d.pick % Len(w.rag_scenarios)) + 1]
             l == log_event(w, << "random_event", scenario >>)
             a == w.pokemon_list[d.first]
             b == w.pokemon_list[d.second]
             moved == IF Min(2, Len(w.pokemon_list)) = 2
                      THEN [l EXCEPT !.pokemons[a] =
                               move_towards(@, l.pokemons[b].position, 10)]
                      ELSE l
         IN  [moved EXCEPT !.ret = << "Random Event", scenario >>]
    ELSE [w EXCEPT !.ret = None]

---------------------------------------------------------------------------
(* What the random source and the collaborators can give a call *)

\* random.random() in percent: below and above every threshold of the engine
\* (0.03, 0.1, 0.15, 0.3, 0.35, 0.4)
RandomDraws == {0, 20, 99}
CoinDraws == {0, 99}
\* the two random.uniform(-0.15, 0.15) of a random_walk, on the grid
WalkDraws == {<< -3, 3 >>, << 3, -3 >>}
\* random.randint(10, 25)
DamageRolls == {DamageLo, DamageHi}
\* the two random.uniform(0.5, 9.5) of spawn_item, on the grid
SpawnPositions == {<< 100, 100 >>, << 10, 190 >>}
\* random.choice(list(BERRY_TYPES.keys()))
SpawnBerries == {"Oran", "Cheri", "Pecha", "Nanab"}

InteractionDraws(rolls) ==
    [r : RandomDraws, ctx : BOOLEAN, narr : BOOLEAN, damage1 : rolls, damage2 : rolls]

AgentDraws ==
    {[r1 |-> c[1], dx |-> m[1], dy |-> m[2], r2 |-> c[2], r3 |-> c[3], pick |-> n] :
        c \in CoinDraws \X CoinDraws \X CoinDraws, m \in WalkDraws, n \in 0..2}

EventDraws(n) ==
    {d \in [r : CoinDraws, pick : {0}, first : 1..n, second : 1..n] :
        d.first # d.second}

---------------------------------------------------------------------------
(* step() as a state machine *)

World ==
    [ pokemons |-> pokemons, pokemon_list |-> pokemon_list,
      items_on_field |-> items_on_field, next_item |-> next_item,
      step_count |-> step_count, event_log |-> event_log, logged |-> logged,
      step_events |-> step_events, prob |-> prob, rag_scenarios |-> rag_scenarios,
      ret |-> None, raised |-> FALSE ]

\* the fields a method can write, written back; the event a handler returned
\* is appended to step_events (lines 78-79, 106-107)
Commit(w) ==
    /\ pokemons' = w.pokemons
    /\ items_on_field' = w.items_on_field
    /\ next_item' = w.next_item
    /\ event_log' = w.event_log
    /\ logged' = w.logged
    /\ step_events' = IF w.ret # None /\ ~w.raised
                      THEN Append(w.step_events, w.ret) ELSE w.step_events
    /\ UNCHANGED << pokemon_list, prob, rag_scenarios >>

NoResult == [kind |-> "none", step |-> 0, events |-> << >>]
Raised == [kind |-> "exception", step |-> 0, events |-> << >>]

\* where every agent stands
Positions(ps) == [k \in DOMAIN ps |-> ps[k].position]

\* where step() goes after the pair (a, b), or before the first pair (a = 0)
AfterPair(a, b, n) ==
    IF a = 0 THEN (IF n >= 2 THEN << "pairs", 1, 2 >>
                   ELSE IF n = 1 THEN << "agents", 1, 0 >> ELSE << "event", 0, 0 >>)
    ELSE IF b < n THEN << "pairs", a, b + 1 >>
    ELSE IF a + 1 < n THEN << "pairs", a + 1, a + 2 >>
    ELSE << "agents", 1, 0 >>

Goto(at) == pc' = at[1] /\ pi' = at[2] /\ pj' = at[3]

\* step(), lines 60-66: count the tick, spawn, log the spawn
StepBeginWith(limit, berries, positions) ==
    /\ pc = "idle"
    /\ step_count < limit
    /\ \E r \in CoinDraws, berry_name \in berries, pos \in positions :
          LET w == [World EXCEPT !.step_count = step_count + 1,
                                 !.step_events = << >>]
              made == spawn_item_result(w.items_on_field, w.prob.spawn, r)
              s == [w EXCEPT !.items_on_field =
                        spawn_item(w.items_on_field, w.next_item, w.prob.spawn,
                                   r, berry_name, pos),
                             !.next_item = IF made THEN @ + 1 ELSE @]
          IN  Commit(IF made THEN log_event(s, << "appeared", berry_name >>) ELSE s)
    /\ step_count' = step_count + 1
    /\ Goto(AfterPair(0, 0, Len(pokemon_list)))
    /\ result' = NoResult
    /\ phase_positions' = Positions(pokemons)
    /\ UNCHANGED calls

StepBegin == StepBeginWith(MaxTick, SpawnBerries, SpawnPositions)

\* step(), lines 71-82: one pair of the double loop
PairStepWith(rolls) ==
    /\ pc = "pairs"
    /\ LET k1 == pokemon_list[pi]
           k2 == pokemon_list[pj]
           distance2 == Dist2(pokemons[k1].position, pokemons[k2].position)
       IN  IF distance2 < InteractD2
           THEN \E d \in InteractionDraws(rolls) :
                   LET w == _handle_interaction(World, k1, k2, d)
                   IN  /\ Commit(w)
                       /\ IF w.raised
                          THEN /\ result' = Raised /\ Goto(<< "idle", 0, 0 >>)
                               /\ phase_positions' = Positions(w.pokemons)
                          ELSE /\ result' = result
                               /\ Goto(AfterPair(pi, pj, Len(pokemon_list)))
                               /\ UNCHANGED phase_positions
           ELSE /\ Commit(IF distance2 < AwareD2
                          THEN _handle_awareness(World, k1, k2) ELSE World)
                /\ result' = result
                /\ Goto(AfterPair(pi, pj, Len(pokemon_list)))
                /\ UNCHANGED phase_positions
    /\ UNCHANGED << step_count, calls >>

PairStep == PairStepWith(DamageRolls)

\* the agent loop calling auto_use_item before check_pickup (C18 tells it
\* apart)
AgentStep_auto_use_first ==
    /\ pc = "agents"
    /\ \E d \in AgentDraws :
          LET k == pokemon_list[pi]
              acted == _handle_individual_action(World, k, d)
          IN  Commit(Pickup(AutoUse(acted, k), k))
    /\ IF pi < Len(pokemon_list) THEN Goto(<< "agents", pi + 1, 0 >>)
       ELSE Goto(<< "event", 0, 0 >>)
    /\ UNCHANGED << step_count, result, calls, phase_positions >>

\* step(), lines 85-101: one agent of the second loop
AgentStep ==
    /\ pc = "agents"
    /\ \E d \in AgentDraws :
          LET k == pokemon_list[pi]
              acted == _handle_individual_action(World, k, d)
          IN  Commit(AutoUse(Pickup(acted, k), k))
    /\ IF pi < Len(pokemon_list) THEN Goto(<< "agents", pi + 1, 0 >>)
       ELSE Goto(<< "event", 0, 0 >>)
    /\ UNCHANGED << step_count, result, calls, phase_positions >>

\* step(), lines 104-113: the random event, and the snapshot returned
EventStep ==
    /\ pc = "event"
    /\ \E d \in EventDraws(Max(2, Len(pokemon_list))) :
          LET w == IF Below(d.r, prob.random_event)
                   THEN _trigger_random_event(World, d) ELSE World
          IN  /\ Commit(w)
              /\ result' = [kind |-> "snapshot", step |-> step_count,
                            events |-> step_events']
              /\ phase_positions' = Positions(w.pokemons)
    /\ Goto(<< "idle", 0, 0 >>)
    /\ UNCHANGED << step_count, calls >>

---------------------------------------------------------------------------
(* The states a run starts from.  SimulationEngine.__init__ takes the agents  *)
(* it is given, already built, and sets step_count = 0, an empty log and an   *)
(* empty field.  An agent is drawn in a state its own mutators reach from     *)
(* PokemonALOs.__init__ (hp 100, energy 100, mood normal): energy a multiple  *)
(* of 5, relationships multiples of 5, at most max_inventory items held.      *)
(* The probabilities are the defaults of the two constructors, or 0 where a   *)
(* run leaves a random source out (they are plain attributes of the engine).  *)

\* an agent, by its fields
Agent(key, position, hp, energy, mood, relationships, inventory, abilities) ==
    [ key |-> key, position |-> position, hp |-> hp, energy |-> energy,
      mood |-> mood, current_abilities |-> abilities,
      relationships |-> relationships, inventory |-> inventory,
      max_inventory |-> MaxInventory ]

BaseAbilities == << "move1", "move2", "move3", "move4" >>

\* PokemonALOs.__init__, the random position given
NewAgent(key, position) ==
    Agent(key, position, MaxHp, MaxEnergy, "normal", [k \in {} |-> 0], << >>,
          BaseAbilities)

NoRel == [k \in {} |-> 0]
Rel(other, v) == [k \in {other} |-> v]

\* the probabilities SimulationEngine.__init__ and ItemManager.__init__ set
DefaultProb ==
    [battle |-> 15, friendship |-> 20, learn |-> 10, random_event |-> 10, spawn |-> 3]

\* the defaults, with only the named random sources left on
Only(on) == [f \in DOMAIN DefaultProb |-> IF f \in on THEN DefaultProb[f] ELSE 0]

Pika == "pikachu"
Meow == "meowth"
Sprig == "sprigatito"

Two(a, b) == [k \in {Pika, Meow} |-> IF k = Pika THEN a ELSE b]
Three(a, b, c) ==
    [k \in {Pika, Meow, Sprig} |-> IF k = Pika THEN a ELSE IF k = Meow THEN b ELSE c]

Scenario(list, agents, p, scenarios) ==
    [pokemon_list |-> list, pokemons |-> agents, prob |-> p, rag_scenarios |-> scenarios]

Near1 == << 100, 100 >>
Near2 == << 110, 100 >>
Aware3 == << 150, 100 >>
Far2 == << 100, 20 >>
Corner == << 2, 195 >>

FullAbilities == << "move1", "move2", "move3", "move4", "move5", "move6" >>

\* two agents within interaction distance, the interaction draws on
Duels ==
    { Scenario(<< Pika, Meow >>,
               Two(NewAgent(Pika, Near1), NewAgent(Meow, Near2)),
               Only({"battle", "friendship"}), << >>),
      Scenario(<< Pika, Meow >>,
               Two(Agent(Pika, Near1, 10, 0, "tired", Rel(Meow, -100), << >>, BaseAbilities),
                   Agent(Meow, Near2, 98, 100, "happy", Rel(Pika, -100), << >>, BaseAbilities)),
               Only({"battle", "friendship"}), << >>),
      Scenario(<< Pika, Meow >>,
               Two(Agent(Pika, Near1, 98, 25, "normal", Rel(Meow, 95), << >>, BaseAbilities),
                   Agent(Meow, Near2, 30, 95, "angry", Rel(Pika, 95), << >>, BaseAbilities)),
               Only({"battle", "friendship"}), << >>) }

\* two agents out of each other's reach, items spawning; the first agent's
\* inventory is full
Foragers ==
    { Scenario(<< Pika, Meow >>,
               Two(Agent(Pika, Near1, 60, 60, "normal", NoRel,
                         << Item(1, "Pecha"), Item(2, "Cheri"), Item(3, "Persim") >>,
                         BaseAbilities),
                   Agent(Meow, Corner, 45, 100, "angry", NoRel,
                         << Item(4, "Pecha"), Item(5, "Leppa") >>, BaseAbilities)),
               Only({"spawn"}), << >>) }

\* three agents, the third within awareness distance of the other two
Trios ==
    { Scenario(AllKeys,
               Three(Agent(Pika, Near1, 100, 100, "normal", Rel(Sprig, -35), << >>, FullAbilities),
                     Agent(Meow, Near2, 25, 20, "tired", NoRel, << >>, FullAbilities),
                     Agent(Sprig, Aware3, 100, 100, "normal", Rel(Pika, -35), << >>, FullAbilities)),
               Only({}), << >>) }

\* two agents out of each other's reach, one of them learning, random events on
Learners ==
    { Scenario(<< Pika, Meow >>,
               Two(NewAgent(Pika, Near1),
                   Agent(Meow, Far2, 100, 100, "normal", NoRel, << >>, FullAbilities)),
               Only({"learn"}), << >>),
      Scenario(<< Pika, Meow >>,
               Two(Agent(Pika, Near1, 100, 100, "normal", NoRel, << >>, FullAbilities),
                   Agent(Meow, Far2, 100, 20, "normal", NoRel, << >>, FullAbilities)),
               Only({"random_event"}), << "scenario1", "scenario2" >>) }

Scenarios == Duels \cup Foragers \cup Trios \cup Learners

\* the agents and the settings the engine is built over
Given(scenarios) ==
    \E sc \in scenarios :
        /\ pokemon_list = sc.pokemon_list
        /\ pokemons = sc.pokemons
        /\ prob = sc.prob
        /\ rag_scenarios = sc.rag_scenarios

\* SimulationEngine.__init__ and ItemManager.__init__
InitFrom(scenarios) ==
    /\ Given(scenarios)
    /\ items_on_field = << >>
    /\ next_item = 10
    /\ step_count = 0
    /\ event_log = << >>
    /\ logged = << >>
    /\ step_events = << >>
    /\ pc = "idle"
    /\ pi = 0
    /\ pj = 0
    /\ result = NoResult
    /\ calls = 0
    /\ phase_positions = Positions(pokemons)

Init == InitFrom(Scenarios)

Next == StepBegin \/ PairStep \/ AgentStep \/ EventStep

Spec == Init /\ [][Next]_vars

---------------------------------------------------------------------------
(* FieldSpec: one agent far from where the items appear, stepped until the  *)
(* field is full and a further spawn is refused.                            *)

\* step() is called at most MaxFieldTick times in a behaviour of FieldSpec
MaxFieldTick == 6

Loner ==
    { Scenario(<< Pika >>, [k \in {Pika} |-> NewAgent(Pika, Far2)],
               Only({"spawn"}), << >>) }

FieldInit == InitFrom(Loner)

FieldBegin == StepBeginWith(MaxFieldTick, {"Oran"}, {<< 10, 190 >>})

FieldNext == FieldBegin \/ AgentStep \/ EventStep

FieldSpec == FieldInit /\ [][FieldNext]_vars

---------------------------------------------------------------------------
(* LogSpec: log_event called on a log that already holds n entries, one per  *)
(* earlier tick.                                                             *)

LogLengths == {0, 1, 198, 199, 200}

PriorLog(n) == [m \in 1..n |-> [step |-> m, event |-> << "resting", Pika >>]]

LogEvents == {<< "resting", Pika >>, << "healing", Pika >>}

LogInit ==
    /\ Given(Loner)
    /\ items_on_field = << >>
    /\ next_item = 10
    /\ \E n \in LogLengths :
          /\ step_count = n
          /\ event_log = PriorLog(n)
          /\ logged = PriorLog(n)
    /\ step_events = << >>
    /\ pc = "idle"
    /\ pi = 0
    /\ pj = 0
    /\ result = NoResult
    /\ calls = 0
    /\ phase_positions = Positions(pokemons)

\* log_event(event)
LogCall ==
    /\ calls < MaxLogCalls
    /\ \E event \in LogEvents : Commit(log_event(World, event))
    /\ calls' = calls + 1
    /\ UNCHANGED << step_count, pc, pi, pj, result, phase_positions >>

\* step(), line 60, between two log_event calls
LogTick ==
    /\ calls < MaxLogCalls
    /\ step_count' = step_count + 1
    /\ calls' = calls + 1
    /\ UNCHANGED << pokemons, pokemon_list, items_on_field, next_item, event_log,
                    logged, step_events, prob, rag_scenarios, pc, pi, pj, result,
                    phase_positions >>

LogNext == LogCall \/ LogTick

LogSpec == LogInit /\ [][LogNext]_vars

---------------------------------------------------------------------------
(* ItemSpec: auto_use_item, use_item and check_pickup called on one agent    *)
(* and one field, the agent's condition, its inventory and the field drawn   *)
(* from small sets.                                                          *)

\* the three methods are called at most MaxItemCalls times in a behaviour
MaxItemCalls == 2

\* on both sides of auto_use_item's thresholds hp <= 50 and energy <= 30
ItemHps == {40, 50, 55}
ItemEnergies == {20, 30, 35}
ItemMoods == {"normal", "angry", "tired"}

\* an inventory of the named berries, distinct objects in this order
Bag(names) == [n \in 1..Len(names) |-> Item(n, names[n])]
Bags == {Bag(names) : names \in UNION {[1..n -> SpawnBerries] : n \in 0..MaxInventory}}

\* an item lying on the field, as spawn_item places it
Placed(id, berry_name, pos) == [Item(id, berry_name) EXCEPT !.position = pos]

\* fields around an agent at Near1: items 5, 1 and 11 grid units away are
\* within pickup distance (0.6 = 12), items 12 and 20 units away are not
Fields ==
    { << >>,
      << Placed(1, "Oran", << 100, 120 >>) >>,
      << Placed(1, "Oran", << 100, 120 >>), Placed(2, "Cheri", << 105, 100 >>),
         Placed(3, "Pecha", << 100, 101 >>) >>,
      << Placed(1, "Nanab", << 100, 112 >>), Placed(2, "Oran", << 100, 111 >>),
         Placed(3, "Oran", << 101, 100 >>), Placed(4, "Cheri", << 30, 30 >>) >> }

ItemInit ==
    /\ pokemon_list = << Pika >>
    /\ \/ /\ \E hp \in ItemHps, energy \in ItemEnergies, mood \in ItemMoods,
                 inventory \in Bags :
                 pokemons = [k \in {Pika} |->
                     Agent(Pika, Near1, hp, energy, mood, NoRel, inventory, BaseAbilities)]
          /\ items_on_field = << >>
       \/ /\ pokemons = [k \in {Pika} |-> NewAgent(Pika, Near1)]
          /\ items_on_field \in Fields
    /\ prob = Only({})
    /\ rag_scenarios = << >>
    /\ next_item = 10
    /\ step_count = 0
    /\ event_log = << >>
    /\ logged = << >>
    /\ step_events = << >>
    /\ pc = "idle"
    /\ pi = 0
    /\ pj = 0
    /\ result = NoResult
    /\ calls = 0
    /\ phase_positions = Positions(pokemons)

\* what a call of a method with an argument gave its caller
Returned(method, arg, value) == [kind |-> method, arg |-> arg, value |-> value]

\* the variables no method of ItemSpec writes
ItemFrame ==
    UNCHANGED << pokemon_list, next_item, step_count, event_log, logged, step_events,
                 prob, rag_scenarios, pc, pi, pj, phase_positions >>

\* pokemon.auto_use_item()
AutoUseCall ==
    /\ calls < MaxItemCalls
    /\ pokemons' = [pokemons EXCEPT ![Pika] = auto_use_item(@)]
    /\ result' = Returned("auto_use_item", None, auto_use_item_result(pokemons[Pika]))
    /\ calls' = calls + 1
    /\ UNCHANGED items_on_field
    /\ ItemFrame

\* pokemon.use_item(item_index), for indices inside and outside the inventory
UseCall ==
    /\ calls < MaxItemCalls
    /\ \E item_index \in -2..MaxInventory :
          /\ pokemons' = [pokemons EXCEPT ![Pika] = use_item(@, item_index)]
          /\ result' = Returned("use_item", item_index,
                                use_item_result(pokemons[Pika], item_index))
    /\ calls' = calls + 1
    /\ UNCHANGED items_on_field
    /\ ItemFrame

\* item_manager.check_pickup(pokemon, pickup_distance=0.6)
PickupCall ==
    /\ calls < MaxItemCalls
    /\ LET n == check_pickup_index(items_on_field, pokemons[Pika], PickupD2)
       IN  /\ items_on_field' = check_pickup(items_on_field, pokemons[Pika], PickupD2)
           /\ result' = Returned("check_pickup", PickupD2,
                                 IF n = 0 THEN None ELSE items_on_field[n])
    /\ calls' = calls + 1
    /\ UNCHANGED pokemons
    /\ ItemFrame

ItemNext == AutoUseCall \/ UseCall \/ PickupCall

ItemSpec == ItemInit /\ [][ItemNext]_vars

---------------------------------------------------------------------------
(* CrossSpec: step() on three agents in a row.  The first is hostile to the  *)
(* second, 2.0 away, and 1.6 away from the third: the awareness move of the  *)
(* pair (first, second) carries the first to 1.4 from the third before the   *)
(* pair (first, third) is looked at.                                         *)

Crossings ==
    { Scenario(AllKeys,
               Three(Agent(Pika, Near1, 100, 100, "normal", Rel(Meow, -35), << >>,
                           FullAbilities),
                     Agent(Meow, << 140, 100 >>, 100, 100, "normal", NoRel, << >>,
                           FullAbilities),
                     Agent(Sprig, << 132, 100 >>, 100, 100, "normal", NoRel, << >>,
                           FullAbilities)),
               Only({"battle"}), << >>) }

\* step() is called at most MaxCrossTick times in a behaviour of CrossSpec
MaxCrossTick == 1

CrossInit == InitFrom(Crossings)

CrossBegin == StepBeginWith(MaxCrossTick, SpawnBerries, SpawnPositions)

CrossNext == CrossBegin \/ PairStep \/ AgentStep \/ EventStep

CrossSpec == CrossInit /\ [][CrossNext]_vars

---------------------------------------------------------------------------
(* ResolverSpec: step() on two agents within interaction distance whose two  *)
(* relationships lie on either side of the resolver's thresholds -30 and 30. *)
(* The engine moves both directions together; update_relationship is public  *)
(* and the agents are handed to the engine already built, so the two         *)
(* directions of a pair can differ.                                          *)

\* the two relationships of the pair: (first to second, second to first)
RivalRels ==
    { << -35, 95 >>, << 95, -35 >>, << -35, -35 >>, << 35, 0 >>, << -30, 30 >>,
      << 0, -35 >> }

Rivals ==
    { Scenario(<< Pika, Meow >>,
               Two(Agent(Pika, Near1, 100, 100, "normal", Rel(Meow, r[1]), << >>,
                         FullAbilities),
                   Agent(Meow, Near2, 100, 100, "normal", Rel(Pika, r[2]), << >>,
                         FullAbilities)),
               Only({"battle", "friendship"}), << >>) : r \in RivalRels }

\* step() is called at most MaxResolverTick times in a behaviour of ResolverSpec
MaxResolverTick == 1

ResolverInit == InitFrom(Rivals)

ResolverBegin == StepBeginWith(MaxResolverTick, SpawnBerries, SpawnPositions)

ResolverNext == ResolverBegin \/ PairStep \/ AgentStep \/ EventStep

ResolverSpec == ResolverInit /\ [][ResolverNext]_vars

---------------------------------------------------------------------------
(* OrderSpec: step() with every random source on, on a pair within           *)
(* interaction distance.  The first agent is low on energy and hp and holds  *)
(* an hp item; an item can appear where it stands.  Every phase of a tick    *)
(* can then write to the log.                                                *)

Busy ==
    { Scenario(<< Pika, Meow >>,
               Two(Agent(Pika, Near1, 45, 25, "angry", NoRel, << Item(1, "Leppa") >>,
                         BaseAbilities),
                   Agent(Meow, Near2, 100, 100, "normal", NoRel, << >>, FullAbilities)),
               DefaultProb, << "scenario1" >>) }

\* step() is called at most MaxOrderTick times in a behaviour of OrderSpec
MaxOrderTick == 1

OrderInit == InitFrom(Busy)

OrderBegin == StepBeginWith(MaxOrderTick, {"Oran"}, {Near1})

OrderPair == PairStepWith({DamageLo})

OrderNext == OrderBegin \/ OrderPair \/ AgentStep \/ EventStep

OrderSpec == OrderInit /\ [][OrderNext]_vars

---------------------------------------------------------------------------
(* ForageSpec: step() on the two foragers, items appearing where they stand  *)

ForageInit == InitFrom(Foragers)

ForageSpec == ForageInit /\ [][Next]_vars

---------------------------------------------------------------------------
(* PracticeSpec: step() on two agents out of each other's reach that can     *)
(* practise in every tick.  The first knows five abilities, one of them from *)
(* its catalog, and reaches the cap of six in one tick; the second knows the *)
(* four it was built with.                                                   *)

Scholars ==
    { Scenario(<< Pika, Meow >>,
               Two(Agent(Pika, Near1, 100, 100, "normal", NoRel, << >>,
                         << "move1", "move2", "move3", "move4", "volt_tackle" >>),
                   Agent(Meow, Far2, 100, 100, "normal", NoRel, << >>, BaseAbilities)),
               Only({"learn"}), << >>) }

\* step() is called at most MaxPracticeTick times in a behaviour of PracticeSpec
MaxPracticeTick == 2

PracticeInit == InitFrom(Scholars)

PracticeBegin == StepBeginWith(MaxPracticeTick, SpawnBerries, SpawnPositions)

PracticeNext == PracticeBegin \/ PairStep \/ AgentStep \/ EventStep

PracticeSpec == PracticeInit /\ [][PracticeNext]_vars

---------------------------------------------------------------------------
(* FallenSpec: step() on two agents within interaction distance, the first   *)
(* hostile to the second and at hp 10, where one battle takes it to hp 0, or *)
(* already at hp 0 as a battle left it.                                      *)

Fallen ==
    { Scenario(<< Pika, Meow >>,
               Two(Agent(Pika, Near1, hp, 95, "tired", Rel(Meow, -100), << >>,
                         FullAbilities),
                   Agent(Meow, Near2, 100, 100, "normal", NoRel, << >>,
                         FullAbilities)),
               Only({"battle"}), << >>) : hp \in {0, 10} }

\* step() is called at most MaxFallenTick times in a behaviour of FallenSpec
MaxFallenTick == 2

FallenInit == InitFrom(Fallen)

FallenBegin == StepBeginWith(MaxFallenTick, SpawnBerries, SpawnPositions)

FallenPair == PairStepWith({DamageLo})

FallenNext == FallenBegin \/ FallenPair \/ AgentStep \/ EventStep

FallenSpec == FallenInit /\ [][FallenNext]_vars

---------------------------------------------------------------------------
(* RecentSpec: log_event and get_recent_logs called on a log that already    *)
(* holds n entries, for counts below, at and above the length of the log.    *)

\* the two methods are called at most MaxRecentCalls times in a behaviour
MaxRecentCalls == 2

\* the argument n of get_recent_logs
RecentCounts == {0, 1, 2, 199, 200, 201}

RecentInit == LogInit

\* the variables no method of RecentSpec writes
RecentFrame ==
    UNCHANGED << pokemons, pokemon_list, items_on_field, next_item, step_count,
                 step_events, prob, rag_scenarios, pc, pi, pj, phase_positions >>

\* log_event(event)
RecentLogCall ==
    /\ calls < MaxRecentCalls
    /\ \E event \in LogEvents :
          LET w == log_event(World, event)
          IN  /\ event_log' = w.event_log
              /\ logged' = w.logged
              /\ result' = Returned("log_event", event, None)
    /\ calls' = calls + 1
    /\ RecentFrame

\* get_recent_logs(n)
RecentCall ==
    /\ calls < MaxRecentCalls
    /\ \E n \in RecentCounts :
          result' = Returned("get_recent_logs", n, get_recent_logs(event_log, n))
    /\ calls' = calls + 1
    /\ UNCHANGED << event_log, logged >>
    /\ RecentFrame

RecentNext == RecentLogCall \/ RecentCall

RecentSpec == RecentInit /\ [][RecentNext]_vars

---------------------------------------------------------------------------
(* AwareSpec: step() on two agents 2.0 apart, within awareness distance and  *)
(* out of interaction distance.  The relationship of the first toward the    *)
(* second lies on either side of the thresholds -30 and 50 of the awareness  *)
(* rule, the first is tired or not, and the relationship of the second       *)
(* toward the first is hostile, neutral or friendly.                         *)

\* the relationship of the first agent toward the second
AwareRels == {-35, -30, 50, 55}
\* the relationship of the second agent toward the first
AwareBackRels == {-35, 0, 55}
AwareMoods == {"normal", "tired"}

Onlookers ==
    { Scenario(<< Pika, Meow >>,
               Two(Agent(Pika, Near1, 100, 100, mood, Rel(Meow, r), << >>,
                         FullAbilities),
                   Agent(Meow, << 140, 100 >>, 100, 100, "tired", Rel(Pika, back), << >>,
                         FullAbilities)),
               Only({}), << >>) :
          r \in AwareRels, back \in AwareBackRels, mood \in AwareMoods }

\* step() is called at most MaxAwareTick times in a behaviour of AwareSpec
MaxAwareTick == 1

AwareInit == InitFrom(Onlookers)

AwareBegin == StepBeginWith(MaxAwareTick, SpawnBerries, SpawnPositions)

AwareNext == AwareBegin \/ PairStep \/ AgentStep \/ EventStep

AwareSpec == AwareInit /\ [][AwareNext]_vars

---------------------------------------------------------------------------
(* BehaveSpec: step() on one agent whose energy and hp lie on either side of *)
(* the thresholds 30 and 40 of the individual behaviour, practice on.        *)

BehaveEnergies == {25, 30}
BehaveHps == {35, 40}

Idlers ==
    { Scenario(<< Pika >>,
               [k \in {Pika} |->
                   Agent(Pika, Near1, hp, energy, "normal", NoRel, << >>, BaseAbilities)],
               Only({"learn"}), << >>) :
          hp \in BehaveHps, energy \in BehaveEnergies }

\* step() is called at most MaxBehaveTick times in a behaviour of BehaveSpec
MaxBehaveTick == 2

BehaveInit == InitFrom(Idlers)

BehaveBegin == StepBeginWith(MaxBehaveTick, SpawnBerries, SpawnPositions)

BehaveNext == BehaveBegin \/ AgentStep \/ EventStep

BehaveSpec == BehaveInit /\ [][BehaveNext]_vars

---------------------------------------------------------------------------
(* DamageSpec: take_damage called on one agent, its hp, energy and mood and  *)
(* the amount drawn from small sets around the thresholds 30 and 60.         *)

\* take_damage is called at most MaxDamageCalls times in a behaviour
MaxDamageCalls == 2

DamageHps == {0, 5, 29, 30, 45, 59, 60, 75, 100}
DamageEnergies == {0, 5, 100}
DamageAmounts == {0, 10, 15, 25, 120}

DamageInit ==
    /\ pokemon_list = << Pika >>
    /\ \E hp \in DamageHps, energy \in DamageEnergies, mood \in Moods :
          pokemons = [k \in {Pika} |->
              Agent(Pika, Near1, hp, energy, mood, NoRel, << >>, BaseAbilities)]
    /\ items_on_field = << >>
    /\ prob = Only({})
    /\ rag_scenarios = << >>
    /\ next_item = 10
    /\ step_count = 0
    /\ event_log = << >>
    /\ logged = << >>
    /\ step_events = << >>
    /\ pc = "idle"
    /\ pi = 0
    /\ pj = 0
    /\ result = NoResult
    /\ calls = 0
    /\ phase_positions = Positions(pokemons)

\* pokemon.take_damage(damage)
DamageCall ==
    /\ calls < MaxDamageCalls
    /\ \E damage \in DamageAmounts :
          /\ pokemons' = [pokemons EXCEPT ![Pika] = take_damage(@, damage)]
          /\ result' = Returned("take_damage", damage, None)
    /\ calls' = calls + 1
    /\ UNCHANGED items_on_field
    /\ ItemFrame

DamageSpec == DamageInit /\ [][DamageCall]_vars

---------------------------------------------------------------------------
(* MutatorSpec: rest, Item.use, move_towards and move_away called on one     *)
(* agent that holds an item and a relationship, its hp, energy and mood      *)
(* drawn from small sets around the clamps and around rest's threshold       *)
(* energy > 80.                                                              *)

\* the four methods are called at most MaxMutatorCalls times in a behaviour
MaxMutatorCalls == 2

MutatorHps == {0, 60, 98, 100}
MutatorEnergies == {70, 75, 90, 100}

\* the items Item.use is called on: a mood item, the mixed berry (value 30)
\* and a mixed item of an odd value, as Item.__init__ takes any value
MutatorItems ==
    { Item(20, "Pecha"), Item(21, "Nanab"),
      [Item(22, "Nanab") EXCEPT !.effect_value = 25] }

\* targets of a move apart from the agent's own position
MutatorTargets == {<< 140, 100 >>, << 97, 104 >>}

MutatorInit ==
    /\ pokemon_list = << Pika >>
    /\ \E hp \in MutatorHps, energy \in MutatorEnergies, mood \in Moods :
          pokemons = [k \in {Pika} |->
              Agent(Pika, Near1, hp, energy, mood, Rel(Meow, 5),
                    << Item(1, "Oran") >>, BaseAbilities)]
    /\ items_on_field = << >>
    /\ prob = Only({})
    /\ rag_scenarios = << >>
    /\ next_item = 10
    /\ step_count = 0
    /\ event_log = << >>
    /\ logged = << >>
    /\ step_events = << >>
    /\ pc = "idle"
    /\ pi = 0
    /\ pj = 0
    /\ result = NoResult
    /\ calls = 0
    /\ phase_positions = Positions(pokemons)

\* pokemon.rest()
RestCall ==
    /\ calls < MaxMutatorCalls
    /\ pokemons' = [pokemons EXCEPT ![Pika] = rest(@)]
    /\ result' = Returned("rest", None, None)
    /\ calls' = calls + 1
    /\ UNCHANGED items_on_field
    /\ ItemFrame

\* item.use(pokemon)
ItemUseCall ==
    /\ calls < MaxMutatorCalls
    /\ \E item \in MutatorItems :
          /\ pokemons' = [pokemons EXCEPT ![Pika] = use(item, @)]
          /\ result' = Returned("use", item, use_text(item, pokemons[Pika]))
    /\ calls' = calls + 1
    /\ UNCHANGED items_on_field
    /\ ItemFrame

\* pokemon.move_towards(target_pos), with the default speed 0.3
MoveTowardsCall ==
    /\ calls < MaxMutatorCalls
    /\ \E target_pos \in MutatorTargets \cup {pokemons[Pika].position} :
          /\ pokemons' = [pokemons EXCEPT ![Pika] = move_towards(@, target_pos, 6)]
          /\ result' = Returned("move_towards", target_pos, None)
    /\ calls' = calls + 1
    /\ UNCHANGED items_on_field
    /\ ItemFrame

\* pokemon.move_away(target_pos), with the default speed 0.3
MoveAwayCall ==
    /\ calls < MaxMutatorCalls
    /\ \E target_pos \in MutatorTargets \cup {pokemons[Pika].position} :
          /\ pokemons' = [pokemons EXCEPT ![Pika] = move_away(@, target_pos, 6)]
          /\ result' = Returned("move_away", target_pos, None)
    /\ calls' = calls + 1
    /\ UNCHANGED items_on_field
    /\ ItemFrame

MutatorNext == RestCall \/ ItemUseCall \/ MoveTowardsCall \/ MoveAwayCall

MutatorSpec == MutatorInit /\ [][MutatorNext]_vars

---------------------------------------------------------------------------
(* EventSpec: _trigger_random_event called on an engine of one, two or three *)
(* agents, whose context source gives no scenario or two.                    *)

\* _trigger_random_event is called at most MaxEventCalls times in a behaviour
MaxEventCalls == 2

\* the agents of EventSpec: apart, with vitals, moods and relationships that
\* a change would show on
EventPika == Agent(Pika, Near1, 50, 20, "angry", Rel(Meow, -40), << Item(1, "Oran") >>,
                   BaseAbilities)
EventMeow == Agent(Meow, Near2, 80, 90, "happy", Rel(Pika, -40), << >>, BaseAbilities)
EventSprig == Agent(Sprig, Aware3, 0, 100, "tired", NoRel, << >>, BaseAbilities)

Crowds ==
    { Scenario(list.l, list.agents, Only({"random_event"}), scenarios) :
        list \in { [l |-> << Pika >>, agents |-> [k \in {Pika} |-> EventPika]],
                   [l |-> << Pika, Meow >>, agents |-> Two(EventPika, EventMeow)],
                   [l |-> << Pika, Meow, Sprig >>,
                    agents |-> Three(EventPika, EventMeow, EventSprig)] },
        scenarios \in { << >>, << "storm", "festival" >> } }

\* what random.choice and random.sample give one call over n agents
EventCallDraws(n) ==
    {d \in [r : {0}, pick : {0, 1}, first : 1..Max(2, n), second : 1..Max(2, n)] :
        d.first # d.second}

\* engine._trigger_random_event()
EventCall ==
    /\ calls < MaxEventCalls
    /\ \E d \in EventCallDraws(Len(pokemon_list)) :
          LET w == _trigger_random_event(World, d)
          IN  /\ pokemons' = w.pokemons
              /\ event_log' = w.event_log
              /\ logged' = w.logged
              /\ result' = Returned("_trigger_random_event", d, w.ret)
    /\ calls' = calls + 1
    /\ UNCHANGED items_on_field
    /\ UNCHANGED << pokemon_list, next_item, step_count, step_events, prob,
                    rag_scenarios, pc, pi, pj, phase_positions >>

EventSpec == InitFrom(Crowds) /\ [][EventCall]_vars

---------------------------------------------------------------------------
(* BondSpec: step() on three agents with empty relationship maps, the first  *)
(* two within interaction distance of each other, where they can battle or  *)
(* befriend in every tick, and the third out of reach.  The agents are out   *)
(* of energy and rest where they stand.                                      *)

Stranger(key, position) ==
    Agent(key, position, MaxHp, 0, "normal", NoRel, << >>, BaseAbilities)

Strangers ==
    { Scenario(AllKeys,
               Three(Stranger(Pika, Near1), Stranger(Meow, Near2),
                     Stranger(Sprig, Far2)),
               Only({"battle", "friendship"}), << >>) }

\* step() is called at most MaxBondTick times in a behaviour of BondSpec
MaxBondTick == 2

BondInit == InitFrom(Strangers)

BondBegin == StepBeginWith(MaxBondTick, SpawnBerries, SpawnPositions)

BondPair == PairStepWith({DamageLo})

BondNext == BondBegin \/ BondPair \/ AgentStep \/ EventStep

BondSpec == BondInit /\ [][BondNext]_vars

---------------------------------------------------------------------------
(* FeudSpec: step() on two agents within interaction distance whose          *)
(* relationship stands at a threshold of the resolver, as runs from empty    *)
(* maps bring it there: at -30 after six battles of 10 damage (hp 40, energy *)
(* 70, angry), or at 30 after three friendships.  One more battle or         *)
(* friendship takes the pair across the threshold in the first tick.  Two    *)
(* more pairs stand at the ends of the scale: at -100, worn down to the hp   *)
(* 3 and the energy 100 their rests leave them, and at 100.                  *)

Feuds ==
    { Scenario(<< Pika, Meow >>,
               Two(Agent(Pika, Near1, 40, 70, "angry", Rel(Meow, -30), << >>, BaseAbilities),
                   Agent(Meow, Near2, 40, 70, "angry", Rel(Pika, -30), << >>, BaseAbilities)),
               Only({"battle", "friendship"}), << >>),
      Scenario(<< Pika, Meow >>,
               Two(Agent(Pika, Near1, 100, 100, "happy", Rel(Meow, 30), << >>, BaseAbilities),
                   Agent(Meow, Near2, 100, 100, "happy", Rel(Pika, 30), << >>, BaseAbilities)),
               Only({"battle", "friendship"}), << >>),
      Scenario(<< Pika, Meow >>,
               Two(Agent(Pika, Near1, 3, 100, "normal", Rel(Meow, -100), << >>, BaseAbilities),
                   Agent(Meow, Near2, 3, 100, "normal", Rel(Pika, -100), << >>, BaseAbilities)),
               Only({"battle", "friendship"}), << >>),
      Scenario(<< Pika, Meow >>,
               Two(Agent(Pika, Near1, 100, 100, "happy", Rel(Meow, 100), << >>, BaseAbilities),
                   Agent(Meow, Near2, 100, 100, "happy", Rel(Pika, 100), << >>, BaseAbilities)),
               Only({"battle", "friendship"}), << >>) }

\* step() is called at most MaxFeudTick times in a behaviour of FeudSpec
MaxFeudTick == 2

FeudInit == InitFrom(Feuds)

FeudBegin == StepBeginWith(MaxFeudTick, SpawnBerries, SpawnPositions)

FeudPair == PairStepWith({DamageLo})

FeudNext == FeudBegin \/ FeudPair \/ AgentStep \/ EventStep

FeudSpec == FeudInit /\ [][FeudNext]_vars

---------------------------------------------------------------------------
(* RecoverSpec: step() on one agent, alone on the field, so that nothing can  *)
(* damage it.  It stands at hp 3, energy 100 and a normal mood, as the step  *)
(* leaves an agent that a battle took to hp 0 (the rest of that very tick    *)
(* gave it 3 hp), or it is low on energy.  RecoverLive adds the fairness of  *)
(* the driver, which calls step() again and again, each call running through *)
(* its loops to its return.                                                  *)

\* step() is called at most MaxRecoverTick times in a behaviour of RecoverSpec:
\* the thirteen rests that take hp from 3 to 42
MaxRecoverTick == 13

Wounded ==
    { Scenario(<< Pika >>,
               [k \in {Pika} |->
                   Agent(Pika, Near1, low.hp, low.energy, low.mood, NoRel, << >>,
                         BaseAbilities)],
               Only({}), << >>) :
        low \in { [hp |-> 3, energy |-> 100, mood |-> "normal"],
                  [hp |-> 37, energy |-> 20, mood |-> "angry"],
                  [hp |-> 100, energy |-> 25, mood |-> "tired"] } }

RecoverInit == InitFrom(Wounded)

RecoverBegin == StepBeginWith(MaxRecoverTick, SpawnBerries, SpawnPositions)

RecoverNext == RecoverBegin \/ AgentStep \/ EventStep

RecoverSpec == RecoverInit /\ [][RecoverNext]_vars

RecoverLive ==
    /\ RecoverSpec
    /\ WF_vars(RecoverBegin)
    /\ WF_vars(AgentStep)
    /\ WF_vars(EventStep)

---------------------------------------------------------------------------
(* The claims *)

Clamp(lo, v, hi) == IF v < lo THEN lo ELSE IF v > hi THEN hi ELSE v
Last(q) == q[Len(q)]
\* the relationship of agent a toward agent b among the agents ps (0 if none)
RelOf(ps, a, b) ==
    IF b \in DOMAIN ps[a].relationships THEN ps[a].relationships[b] ELSE 0
\* some entry of the log history carries the event
WasLogged(event) == \E n \in 1..Len(logged) : logged[n].event = event
\* the fields of an agent no resolution of a pair writes
SameBody(p, q) ==
    /\ p.position = q.position
    /\ p.current_abilities = q.current_abilities
    /\ p.inventory = q.inventory
    /\ p.key = q.key
    /\ p.max_inventory = q.max_inventory
\* every relationship entry but those between a and b is as it was
OtherRelsKept(a, b) ==
    \A k \in DOMAIN pokemons : \A o \in DOMAIN pokemons :
        (<< k, o >> \notin {<< a, b >>, << b, a >>}) =>
            /\ (o \in DOMAIN pokemons'[k].relationships)
                   = (o \in DOMAIN pokemons[k].relationships)
            /\ RelOf(pokemons', k, o) = RelOf(pokemons, k, o)

\* C1: in every state of every run of step() calls, every agent has
\* 0 <= hp <= 100 and 0 <= energy <= 100.
C1_VitalsInRange ==
    \A k \in DOMAIN pokemons :
        /\ 0 <= pokemons[k].hp /\ pokemons[k].hp <= 100
        /\ 0 <= pokemons[k].energy /\ pokemons[k].energy <= 100

\* a battle of the running step left an agent at hp 0 and energy 0
C1_Witness ==
    /\ \E n \in 1..Len(step_events) : step_events[n][1] = "Battle"
    /\ \E k \in DOMAIN pokemons : pokemons[k].hp = 0 /\ pokemons[k].energy = 0

\* C2: every stored relationship lies in [-100, 100], and
\* update_relationship(other, delta) stores clamp(current + delta, -100, 100),
\* current being 0 when no entry exists.
C2_Deltas == {-300, -5, 0, 10, 300}
C2_RelationshipsInRange ==
    \A k \in DOMAIN pokemons :
        /\ \A o \in DOMAIN pokemons[k].relationships :
              -100 <= pokemons[k].relationships[o] /\ pokemons[k].relationships[o] <= 100
        /\ \A o \in DOMAIN pokemons : \A delta \in C2_Deltas :
              LET q == update_relationship(pokemons[k], o, delta)
              IN  /\ o \in DOMAIN q.relationships
                  /\ q.relationships[o] = Clamp(-100, RelOf(pokemons, k, o) + delta, 100)

\* a battle of the running step left a relationship at -100
C2_Witness ==
    /\ \E n \in 1..Len(step_events) : step_events[n][1] = "Battle"
    /\ \E k \in DOMAIN pokemons : \E o \in DOMAIN pokemons[k].relationships :
          pokemons[k].relationships[o] = -100

\* C3: every agent's position lies in [0, W] x [0, H], and a movement clamps
\* each axis on its own: the x it gives does not depend on dy, nor the y on dx.
C3_Moves == {-250, -3, 0, 3, 250}
C3_PositionsInField ==
    \A k \in DOMAIN pokemons :
        /\ 0 <= pokemons[k].position[1] /\ pokemons[k].position[1] <= FieldW
        /\ 0 <= pokemons[k].position[2] /\ pokemons[k].position[2] <= FieldH
        /\ \A dx \in C3_Moves : \A dy \in C3_Moves :
              LET q == update_position(pokemons[k], dx, dy).position
              IN  /\ q[1] = Clamp(0, pokemons[k].position[1] + dx, FieldW)
                  /\ q[2] = Clamp(0, pokemons[k].position[2] + dy, FieldH)

\* a step ended with an agent held at the left edge, its y inside the field
C3_Witness ==
    /\ result.kind = "snapshot"
    /\ \E k \in DOMAIN pokemons :
          /\ pokemons[k].position[1] = 0
          /\ pokemons[k].position[2] \notin {0, FieldH}

\* C4: no inventory is longer than the capacity, and at capacity add_item
\* returns false and leaves the agent as it was.
C4_InventoryBounded ==
    \A k \in DOMAIN pokemons :
        /\ Len(pokemons[k].inventory) <= pokemons[k].max_inventory
        /\ Len(pokemons[k].inventory) >= pokemons[k].max_inventory =>
              /\ ~add_item_ok(pokemons[k])
              /\ add_item(pokemons[k], Item(0, "Oran")) = pokemons[k]

\* a step ended in which an agent holding three items picked up a fourth,
\* which was used at once
C4_Witness ==
    /\ result.kind = "snapshot"
    /\ Len(pokemons[Pika].inventory) = 3
    /\ WasLogged(<< "hp_restored", Pika, 20 >>)
    /\ ~ \E n \in 1..Len(pokemons[Pika].inventory) :
            pokemons[Pika].inventory[n].effect_type = "hp"

\* C5: the field never holds more than max_items_on_field items; spawn_item
\* leaves a full field as it is and adds at most one item otherwise.
C5_FieldBounded ==
    /\ Len(items_on_field) <= 5
    /\ \A r \in CoinDraws : \A b \in SpawnBerries : \A pos \in SpawnPositions :
          LET f == spawn_item(items_on_field, next_item, prob.spawn, r, b, pos)
          IN  /\ Len(items_on_field) >= 5 => f = items_on_field
              /\ Len(f) \in {Len(items_on_field), Len(items_on_field) + 1}
              /\ SubSeq(f, 1, Len(items_on_field)) = items_on_field

\* five items appeared in the first five ticks and a sixth tick began
C5_Witness ==
    /\ Len(items_on_field) = 5
    /\ step_count = 6
    /\ Len(logged) = 5 /\ logged[5].step = 5

\* C6: the log holds at most 200 entries, and they are the most recently
\* logged entries, in logging order.
C6_LogIsRecentSuffix ==
    /\ Len(event_log) <= 200
    /\ Len(event_log) = (IF Len(logged) < 200 THEN Len(logged) ELSE 200)
    /\ \A n \in 1..Len(event_log) :
          event_log[n] = logged[Len(logged) - Len(event_log) + n]

\* two entries were evicted from a log of 200
C6_Witness == Len(logged) = 202 /\ Len(event_log) = 200 /\ calls >= 2

\* C7: no failure of a collaborator leaves step(): step() always returns a
\* snapshot.
C7_StepNeverRaises == result.kind # "exception"

\* C8: when the narrator fails in a battle (the one generic line is logged),
\* both agents lose exactly 15 hp (not below 0) and, as take_damage does,
\* 5 energy; both relationships go down by exactly 5 (not below -100); nothing
\* else of the agents, of the field or of the other relationships changes.
C8_FallbackStep(k1, k2) ==
    logged' = Append(logged, [step |-> step_count, event |-> << "fought", k1, k2 >>])
C8_BattleFallbackExact ==
    [][\A k1 \in DOMAIN pokemons : \A k2 \in DOMAIN pokemons :
          C8_FallbackStep(k1, k2) =>
             /\ \A k \in {k1, k2} :
                   /\ pokemons'[k].hp = Clamp(0, pokemons[k].hp - 15, 100)
                   /\ pokemons'[k].energy = Clamp(0, pokemons[k].energy - 5, 100)
                   /\ SameBody(pokemons'[k], pokemons[k])
             /\ RelOf(pokemons', k1, k2) = Clamp(-100, RelOf(pokemons, k1, k2) - 5, 100)
             /\ RelOf(pokemons', k2, k1) = Clamp(-100, RelOf(pokemons, k2, k1) - 5, 100)
             /\ OtherRelsKept(k1, k2)
             /\ \A k \in DOMAIN pokemons \ {k1, k2} : pokemons'[k] = pokemons[k]
             /\ items_on_field' = items_on_field
             /\ step_events' = Append(step_events, << "Battle", k1, k2 >>)]_vars

\* two fresh agents after a fallback battle: hp 85 and relationship -5 each
C8_Witness ==
    /\ Len(logged) = 1
    /\ logged[1].event = << "fought", Pika, Meow >>
    /\ pokemons[Pika].hp = 85 /\ pokemons[Meow].hp = 85
    /\ RelOf(pokemons, Pika, Meow) = -5 /\ RelOf(pokemons, Meow, Pika) = -5

\* C9: when the narrator succeeds in a friendship (the friendship line and
\* the narration are logged), for both agents the relationship toward the
\* other goes up by 10 (not above 100), mood is happy, hp is min(100, hp + 5).
C9_SuccessStep(k1, k2) ==
    logged' = Append(Append(logged,
                  [step |-> step_count, event |-> << "befriended", k1, k2 >>]),
                  [step |-> step_count, event |-> << "narration", k1, k2 >>])
C9_FriendshipSuccess ==
    [][\A k1 \in DOMAIN pokemons : \A k2 \in DOMAIN pokemons :
          C9_SuccessStep(k1, k2) =>
             /\ \A k \in {k1, k2} :
                   /\ pokemons'[k].mood = "happy"
                   /\ pokemons'[k].hp = Clamp(0, pokemons[k].hp + 5, 100)
             /\ RelOf(pokemons', k1, k2) = Clamp(-100, RelOf(pokemons, k1, k2) + 10, 100)
             /\ RelOf(pokemons', k2, k1) = Clamp(-100, RelOf(pokemons, k2, k1) + 10, 100)]_vars

\* a friendship that met both clamps: relationship 95 -> 100, hp 98 -> 100,
\* and an angry agent at hp 30 made happy at hp 35
C9_Witness ==
    /\ Len(logged) = 2
    /\ logged[1].event = << "befriended", Pika, Meow >>
    /\ pokemons[Pika].hp = 100 /\ pokemons[Meow].hp = 35
    /\ pokemons[Pika].mood = "happy" /\ pokemons[Meow].mood = "happy"
    /\ RelOf(pokemons, Pika, Meow) = 100 /\ RelOf(pokemons, Meow, Pika) = 100

\* C10: when the narrator fails in a friendship (the one generic line is
\* logged), both relationships go up by 10 (not above 100) and nothing else
\* changes: hp, energy, mood and every other field of every agent, the other
\* relationships and the field are as they were.
C10_FallbackStep(k1, k2) ==
    logged' = Append(logged, [step |-> step_count, event |-> << "mingled", k1, k2 >>])
C10_FriendshipFallbackFrame ==
    [][\A k1 \in DOMAIN pokemons : \A k2 \in DOMAIN pokemons :
          C10_FallbackStep(k1, k2) =>
             /\ \A k \in DOMAIN pokemons :
                   /\ pokemons'[k].hp = pokemons[k].hp
                   /\ pokemons'[k].energy = pokemons[k].energy
                   /\ pokemons'[k].mood = pokemons[k].mood
                   /\ SameBody(pokemons'[k], pokemons[k])
             /\ RelOf(pokemons', k1, k2) = Clamp(-100, RelOf(pokemons, k1, k2) + 10, 100)
             /\ RelOf(pokemons', k2, k1) = Clamp(-100, RelOf(pokemons, k2, k1) + 10, 100)
             /\ OtherRelsKept(k1, k2)
             /\ items_on_field' = items_on_field
             /\ step_events' = Append(step_events, << "Friendship", k1, k2 >>)]_vars

\* an angry agent at hp 30 after a fallback friendship: still angry, still 30
C10_Witness ==
    /\ Len(logged) = 1
    /\ logged[1].event = << "mingled", Pika, Meow >>
    /\ pokemons[Meow].hp = 30 /\ pokemons[Meow].mood = "angry"
    /\ pokemons[Meow].energy = 95
    /\ RelOf(pokemons, Pika, Meow) = 100 /\ RelOf(pokemons, Meow, Pika) = 100

---------------------------------------------------------------------------
(* Claims on the item methods (ItemSpec) *)

\* the agent the item methods are called on, before and after the call
Before == pokemons[Pika]
After == pokemons'[Pika]
\* the step is a call of the method
Called(method) == calls' = calls + 1 /\ result'.kind = method
\* the positions of the inventory that hold an item of one of the kinds
Holding(p, kinds) == {n \in 1..Len(p.inventory) : p.inventory[n].effect_type \in kinds}
Lowest(ns) == CHOOSE n \in ns : \A m \in ns : n <= m
\* the call took the item at position n out of the inventory, and no other
Consumed(n) ==
    /\ n \in 1..Len(Before.inventory)
    /\ Len(After.inventory) = Len(Before.inventory) - 1
    /\ \A m \in 1..Len(After.inventory) :
          After.inventory[m] = Before.inventory[IF m < n THEN m ELSE m + 1]
\* q is p after the effect of the item, as Item.use documents it
Effect(item, p, q) ==
    /\ item.effect_type = "hp" =>
          q.hp = Clamp(0, p.hp + item.effect_value, 100) /\ q.energy = p.energy
    /\ item.effect_type = "energy" =>
          q.energy = Clamp(0, p.energy + item.effect_value, 100)
          /\ q.hp = p.hp /\ q.mood = p.mood
    /\ item.effect_type = "mood" =>
          /\ q.mood = (IF p.mood \in {"angry", "tired"} THEN "happy" ELSE "excited")
          /\ q.hp = p.hp /\ q.energy = p.energy
    /\ item.effect_type = "mixed" =>
          /\ q.hp = Clamp(0, p.hp + item.effect_value \div 2, 100)
          /\ q.energy = Clamp(0, p.energy + item.effect_value \div 2, 100)
    /\ item.effect_type \in {"hp", "mixed"} =>
          q.mood = (IF q.hp > 70 THEN "happy" ELSE p.mood)
    /\ q.position = p.position /\ q.relationships = p.relationships
    /\ q.current_abilities = p.current_abilities

\* C11: when hp <= 50 and an item of kind hp or mixed is held, auto_use_item
\* consumes the first such item of the inventory, and no other, and applies
\* its effect, whatever the energy, the mood and the other items.
C11_HpRuleFirst ==
    [][(Called("auto_use_item") /\ Before.hp <= 50
            /\ Holding(Before, {"hp", "mixed"}) # {}) =>
          LET n == Lowest(Holding(Before, {"hp", "mixed"}))
          IN  /\ Consumed(n)
              /\ Effect(Before.inventory[n], Before, After)
              /\ result'.value # None]_vars

\* an angry agent at hp 40 and energy 20 held an energy, a mood and an hp
\* item in this order: the hp item, the last one, was consumed
C11_Witness ==
    /\ result.kind = "auto_use_item" /\ calls = 1
    /\ pokemons[Pika].inventory = << Item(1, "Cheri"), Item(2, "Pecha") >>
    /\ pokemons[Pika].hp = 60 /\ pokemons[Pika].energy = 20
    /\ pokemons[Pika].mood = "angry"

\* the call consumed an item of the kind
ConsumedKind(kind) ==
    \E n \in 1..Len(Before.inventory) :
        Consumed(n) /\ Before.inventory[n].effect_type = kind

\* C12 as stated: the rules are an else-chain on the agent's condition alone:
\* an energy item is consumed only when hp > 50 and energy <= 30, a mood item
\* only when hp > 50, energy > 30 and the mood is angry or tired.
C12_ExclusiveChain ==
    [][Called("auto_use_item") =>
          /\ ConsumedKind("energy") => (Before.hp > 50 /\ Before.energy <= 30)
          /\ ConsumedKind("mood") =>
                (Before.hp > 50 /\ Before.energy > 30
                    /\ Before.mood \in {"angry", "tired"})]_vars

\* C12 amended: a rule is passed over when its condition fails or when no
\* item of its kinds is held.  An energy item is consumed only when
\* energy <= 30 and (hp > 50 or no hp or mixed item is held); a mood item only
\* when the mood is angry or tired, (hp > 50 or no hp or mixed item is held)
\* and (energy > 30 or no energy or mixed item is held).
C12_RulesFallThrough ==
    [][Called("auto_use_item") =>
          LET no_hp_item == Holding(Before, {"hp", "mixed"}) = {}
              no_energy_item == Holding(Before, {"energy", "mixed"}) = {}
          IN  /\ ConsumedKind("energy") =>
                    (Before.energy <= 30 /\ (Before.hp > 50 \/ no_hp_item))
              /\ ConsumedKind("mood") =>
                    /\ Before.mood \in {"angry", "tired"}
                    /\ Before.hp > 50 \/ no_hp_item
                    /\ Before.energy > 30 \/ no_energy_item]_vars

\* an agent at hp 40 and energy 20 that held an energy item alone consumed it
C12_Witness ==
    /\ result.kind = "auto_use_item" /\ calls = 1
    /\ result.value = << "energy_restored", Pika, 30 >>
    /\ pokemons[Pika].hp = 40 /\ pokemons[Pika].energy = 50
    /\ pokemons[Pika].inventory = << >>

\* C13: a call of auto_use_item removes at most one item, and it returns
\* None exactly when it leaves the inventory as it was, which is exactly when
\* no rule both matches the agent's condition and finds an item of its kinds.
C13_AtMostOneItem ==
    [][Called("auto_use_item") =>
          LET kept == After.inventory = Before.inventory
              found == \/ Before.hp <= 50 /\ Holding(Before, {"hp", "mixed"}) # {}
                       \/ Before.energy <= 30
                            /\ Holding(Before, {"energy", "mixed"}) # {}
                       \/ Before.mood \in {"angry", "tired"}
                            /\ Holding(Before, {"mood"}) # {}
          IN  /\ kept \/ \E n \in 1..Len(Before.inventory) : Consumed(n)
              /\ (result'.value = None) = kept
              /\ kept = ~found
              /\ kept => After = Before]_vars

\* a tired agent at hp 40 and energy 20 held an hp, an energy and a mood
\* item, every rule matching: one call consumed the hp item alone
C13_Witness ==
    /\ result.kind = "auto_use_item" /\ calls = 1
    /\ result.value = << "hp_restored", Pika, 20 >>
    /\ pokemons[Pika].inventory = << Item(2, "Cheri"), Item(3, "Pecha") >>
    /\ pokemons[Pika].energy = 20 /\ pokemons[Pika].mood = "tired"

\* C14: check_pickup returns and removes the earliest-inserted item among
\* those within the pickup distance (12 grid units) of the agent, whether or
\* not it is the nearest; the other items stay, in their order; with no item
\* within the distance it returns None and the field is as it was.
C14_Reach(item) ==
    (item.position[1] - Before.position[1]) * (item.position[1] - Before.position[1])
      + (item.position[2] - Before.position[2]) * (item.position[2] - Before.position[2])
      < 12 * 12
C14_EarliestInReach ==
    [][Called("check_pickup") =>
          LET within == {n \in 1..Len(items_on_field) : C14_Reach(items_on_field[n])}
          IN  IF within = {}
              THEN result'.value = None /\ items_on_field' = items_on_field
              ELSE LET n == Lowest(within)
                   IN  /\ result'.value = items_on_field[n]
                       /\ Len(items_on_field') = Len(items_on_field) - 1
                       /\ \A m \in 1..Len(items_on_field') :
                             items_on_field'[m]
                                = items_on_field[IF m < n THEN m ELSE m + 1]]_vars

\* of an item out of reach, an item 5 units away and an item 1 unit away, in
\* this order, the second was returned: the first and the third remain
C14_Witness ==
    /\ result.kind = "check_pickup" /\ calls = 1
    /\ result.value = Placed(2, "Cheri", << 105, 100 >>)
    /\ items_on_field = << Placed(1, "Oran", << 100, 120 >>),
                           Placed(3, "Pecha", << 100, 101 >>) >>

\* C15: use_item(i) with i outside [0, len(inventory)), negative i included,
\* returns None and leaves the agent as it was; with i inside it removes the
\* item at index i, and no other, and applies that item's effect.
C15_UseItemByIndex ==
    [][Called("use_item") =>
          LET i == result'.arg
          IN  IF 0 <= i /\ i < Len(Before.inventory)
              THEN /\ Consumed(i + 1)
                   /\ Effect(Before.inventory[i + 1], Before, After)
                   /\ result'.value # None
              ELSE /\ result'.value = None
                   /\ After = Before]_vars

\* a call that changed nothing (such as use_item(-1)) on an agent holding
\* three items, then use_item(1): the agent holds the first and the third,
\* the energy item's effect applied
C15_Witness ==
    /\ result.kind = "use_item" /\ result.arg = 1 /\ calls = 2
    /\ result.value = << "energy_restored", Pika, 30 >>
    /\ pokemons[Pika].inventory = << Item(1, "Oran"), Item(3, "Pecha") >>
    /\ pokemons[Pika].hp = 40 /\ pokemons[Pika].energy = 50
    /\ pokemons[Pika].mood = "angry"

---------------------------------------------------------------------------
(* Claims on step() *)

\* the band of a squared distance on the grid: below 1.5, below 3.0, beyond
Band(d2) ==
    IF d2 < 30 * 30 THEN "interacting" ELSE IF d2 < 60 * 60 THEN "aware" ELSE "indifferent"
SquaredDistance(a, b) ==
    (a[1] - b[1]) * (a[1] - b[1]) + (a[2] - b[2]) * (a[2] - b[2])

\* C16: the band step() puts a pair in is the band of the two positions as
\* they were when the pair loop began: whenever a pair is about to be looked
\* at, its band by the agents' positions of the moment is its band by their
\* positions at the start of the pair loop.
C16_BandAsOfPhaseStart ==
    pc = "pairs" =>
        LET k1 == pokemon_list[pi]
            k2 == pokemon_list[pj]
        IN  Band(SquaredDistance(pokemons[k1].position, pokemons[k2].position))
              = Band(SquaredDistance(phase_positions[k1], phase_positions[k2]))

\* C17: a call of the interaction resolver has exactly one of three outcomes:
\* a battle, a friendship, or nothing (no agent, log or event changed).  When
\* either direction of the relationship is below -30 the outcome is never a
\* friendship, even with the other direction above 30; otherwise, when either
\* direction is above 30, it is never a battle.  A battle lowers both
\* directions and a friendship raises them.
C17_HostileFirst ==
    [][(pc = "pairs"
          /\ Band(SquaredDistance(pokemons[pokemon_list[pi]].position,
                                  pokemons[pokemon_list[pj]].position)) = "interacting") =>
          LET k1 == pokemon_list[pi]
              k2 == pokemon_list[pj]
              r1 == RelOf(pokemons, k1, k2)
              r2 == RelOf(pokemons, k2, k1)
              battle == step_events' = Append(step_events, << "Battle", k1, k2 >>)
              friendship == step_events' = Append(step_events, << "Friendship", k1, k2 >>)
              nothing == /\ step_events' = step_events /\ pokemons' = pokemons
                         /\ logged' = logged
              hostile == r1 < -30 \/ r2 < -30
              friendly == ~hostile /\ (r1 > 30 \/ r2 > 30)
          IN  /\ battle \/ friendship \/ nothing
              /\ ~(battle /\ friendship) /\ ~(battle /\ nothing)
              /\ ~(friendship /\ nothing)
              /\ hostile => ~friendship
              /\ friendly => ~battle
              /\ battle => /\ RelOf(pokemons', k1, k2) = Clamp(-100, r1 - 5, 100)
                            /\ RelOf(pokemons', k2, k1) = Clamp(-100, r2 - 5, 100)
              /\ friendship => /\ RelOf(pokemons', k1, k2) = Clamp(-100, r1 + 10, 100)
                                /\ RelOf(pokemons', k2, k1) = Clamp(-100, r2 + 10, 100)
                                /\ \A k \in {k1, k2} : pokemons'[k].hp >= pokemons[k].hp]_vars

\* a pair with relationships -35 and 95 fought: -40 and 90 after the battle
C17_Witness ==
    /\ step_count = 1
    /\ step_events = << << "Battle", Pika, Meow >> >>
    /\ RelOf(pokemons, Pika, Meow) = -40 /\ RelOf(pokemons, Meow, Pika) = 90

\* the phase of step() that writes a log line: 0 the spawn, 1 the pair loop,
\* 2 the agent loop, 3 the random event
C18_Phase(event) ==
    IF event[1] = "appeared" THEN 0
    ELSE IF event[1] \in {"battle", "narration", "fought", "befriended", "mingled"} THEN 1
    ELSE IF event[1] = "random_event" THEN 3
    ELSE 2
\* the part of an agent's individual phase that writes a log line: 0 the
\* behaviour, 1 a pickup kept, 2 the use of an item
C18_Part(event) ==
    IF event[1] \in {"resting", "healing", "learned"} THEN 0
    ELSE IF event[1] = "picked" THEN 1 ELSE 2
\* the place in the agent loop of the agent a log line of phase 2 names
C18_Turn(event) == CHOOSE n \in 1..Len(pokemon_list) : pokemon_list[n] = event[2]
\* entry a may be followed by entry b in the log
C18_InOrder(a, b) ==
    \/ a.step < b.step
    \/ /\ a.step = b.step
       /\ C18_Phase(a.event) <= C18_Phase(b.event)
       /\ (C18_Phase(a.event) = 2 /\ C18_Phase(b.event) = 2) =>
             \/ C18_Turn(a.event) < C18_Turn(b.event)
             \/ /\ C18_Turn(a.event) = C18_Turn(b.event)
                /\ C18_Part(a.event) <= C18_Part(b.event)

\* C18: the tick is counted before anything is logged (every entry carries
\* the number of the tick that wrote it), and within a tick the log lines
\* come in the order of the phases: the spawn, then the pairs, then the
\* agents one after the other, each with its behaviour, then its pickup, then
\* its use of an item, then the random event.
C18_PhasesInOrder ==
    [][/\ \A n \in (Len(logged) + 1)..Len(logged') :
             logged'[n].step = step_count' /\ step_count' >= 1
       /\ \A m \in 1..Len(logged') : \A n \in (m + 1)..Len(logged') :
             C18_InOrder(logged'[m], logged'[n])
       /\ (pc = "idle" /\ pc' # "idle") => step_count' = step_count + 1
       /\ pc # "idle" => step_count' = step_count]_vars

\* one tick in which an item appeared, the pair mingled, the first agent
\* rested, picked the item up and used the item it held, and a random event
\* followed: six log lines of tick 1
C18_Witness ==
    /\ result.kind = "snapshot" /\ step_count = 1
    /\ Len(logged) = 6
    /\ logged[1].event = << "appeared", "Oran" >>
    /\ logged[2].event = << "mingled", Pika, Meow >>
    /\ logged[3].event = << "resting", Pika >>
    /\ logged[4].event = << "picked", Pika, "Oran" >>
    /\ logged[5].event = << "hp_restored", Pika, 15 >>
    /\ logged[6].event = << "random_event", "scenario1" >>

\* the agent loop took the item at position n off the field
C19_Taken(n) ==
    /\ pc = "agents"
    /\ n \in 1..Len(items_on_field)
    /\ Len(items_on_field') = Len(items_on_field) - 1
    /\ \A m \in 1..Len(items_on_field') :
          items_on_field'[m] = items_on_field[IF m < n THEN m ELSE m + 1]
\* the tag of the line Item.use returns for an item of the kind
C19_Line(item, p) ==
    IF item.effect_type = "hp" THEN {"hp_restored"}
    ELSE IF item.effect_type = "energy" THEN {"energy_restored"}
    ELSE IF item.effect_type = "mixed" THEN {"recovered"}
    ELSE {"mood_better", "cheered_up"}

\* C19: when an agent whose inventory is full picks an item up in step(), the
\* item leaves the field, does not enter the inventory, and its effect is
\* applied to that agent in the same tick (and logged with the tick).
C19_FullInventoryUsesAtOnce ==
    [][\A n \in 1..Len(items_on_field) :
          LET k == pokemon_list[pi]
              p == pokemons[k]
              q == pokemons'[k]
              item == items_on_field[n]
          IN  (C19_Taken(n) /\ Len(p.inventory) >= p.max_inventory) =>
                /\ \A m \in 1..Len(items_on_field') : items_on_field'[m].id # item.id
                /\ \A m \in 1..Len(q.inventory) : q.inventory[m].id # item.id
                /\ Len(q.inventory) <= Len(p.inventory)
                /\ \E m \in (Len(logged) + 1)..Len(logged') :
                      /\ logged'[m].step = step_count
                      /\ logged'[m].event[1] \in C19_Line(item, p)
                      /\ logged'[m].event[2] = k
                /\ item.effect_type = "hp" =>
                      q.hp >= Clamp(0, p.hp + item.effect_value, 100)
                /\ item.effect_type = "energy" =>
                      q.energy >= Clamp(0, p.energy + item.effect_value, 100)
                /\ item.effect_type = "mixed" =>
                      /\ q.hp >= Clamp(0, p.hp + item.effect_value \div 2, 100)
                      /\ q.energy >= Clamp(0, p.energy + item.effect_value \div 2, 100)
                /\ item.effect_type = "mood" => q.mood \in {"happy", "excited"}]_vars

\* the first forager, holding three items, met a mixed item of value 30 in
\* tick 1: hp 60 -> 75, energy 60 -> 75, the field empty, the same three
\* items held
C19_Witness ==
    /\ step_count = 1 /\ items_on_field = << >>
    /\ WasLogged(<< "appeared", "Nanab" >>)
    /\ WasLogged(<< "recovered", Pika, 0 >>)
    /\ pokemons[Pika].hp = 75 /\ pokemons[Pika].energy = 75
    /\ pokemons[Pika].inventory
          = << Item(1, "Pecha"), Item(2, "Cheri"), Item(3, "Persim") >>

\* the rolls a battle of the pair can draw, the collaborators answering
C20_Rolls ==
    {d \in InteractionDraws(DamageRolls) : d.ctx /\ d.narr}

\* C20: when the narrator succeeds in a battle, the two rolls are drawn
\* independently in [10, 25] and applied crosswise: the first agent loses the
\* second roll and the second agent the first roll (hp not below 0), both
\* lose 5 energy (not below 0), and both relationships go down by 5 (not
\* below -100).  Stated of every pair about to be looked at, for every pair
\* of rolls it can draw.
C20_CrosswiseDamage ==
    pc = "pairs" =>
        LET k1 == pokemon_list[pi]
            k2 == pokemon_list[pj]
        IN  /\ \A roll1 \in DamageRolls : \A roll2 \in DamageRolls :
                  \E d \in C20_Rolls : d.damage1 = roll1 /\ d.damage2 = roll2
            /\ \A d \in C20_Rolls :
                  LET after == _simulate_battle(World, k1, k2, d).pokemons
                  IN  /\ 10 <= d.damage1 /\ d.damage1 <= 25
                      /\ 10 <= d.damage2 /\ d.damage2 <= 25
                      /\ after[k1].hp = Clamp(0, pokemons[k1].hp - d.damage2, 100)
                      /\ after[k2].hp = Clamp(0, pokemons[k2].hp - d.damage1, 100)
                      /\ \A k \in {k1, k2} :
                            after[k].energy = Clamp(0, pokemons[k].energy - 5, 100)
                      /\ RelOf(after, k1, k2) = Clamp(-100, RelOf(pokemons, k1, k2) - 5, 100)
                      /\ RelOf(after, k2, k1) = Clamp(-100, RelOf(pokemons, k2, k1) - 5, 100)

\* two fresh agents after a narrated battle with unequal rolls: one lost 25
\* hp and the other 10, both 5 energy, both relationships at -5
C20_Witness ==
    /\ Len(logged) = 2
    /\ logged[1].event = << "battle", Pika, Meow >>
    /\ logged[2].event = << "narration", Pika, Meow >>
    /\ pokemons[Pika].hp = 75 /\ pokemons[Meow].hp = 90
    /\ pokemons[Pika].energy = 95 /\ pokemons[Meow].energy = 95
    /\ RelOf(pokemons, Pika, Meow) = -5 /\ RelOf(pokemons, Meow, Pika) = -5

\* no name occurs twice in the sequence
NoDuplicates(s) == \A m \in 1..Len(s) : \A n \in 1..Len(s) : s[m] = s[n] => m = n
\* sequence a is the beginning of sequence b
IsPrefix(a, b) == Len(a) <= Len(b) /\ \A n \in 1..Len(a) : b[n] = a[n]

\* C21: for agents that start with at most 6 distinct abilities, in every
\* state every ability list is free of duplicates and holds at most 6 names;
\* every step keeps the abilities an agent had, in their order; learn_move of
\* an ability already known changes neither the list nor the mood.
C21_AbilitiesGrowOnly ==
    [][\A k \in DOMAIN pokemons :
          LET had == pokemons[k].current_abilities
              has == pokemons'[k].current_abilities
          IN  /\ IsPrefix(had, has)
              /\ NoDuplicates(has)
              /\ Len(has) <= 6
              /\ \A n \in 1..Len(has) :
                    LET q == learn_move(pokemons'[k], has[n])
                    IN  /\ q.current_abilities = has
                        /\ q.mood = pokemons'[k].mood]_vars

\* the first agent learned its sixth ability in tick 1 and went through the
\* agent loop of tick 2, where it could practise again, with the six it had
C21_Witness ==
    /\ step_count = 2 /\ result.kind = "snapshot"
    /\ Len(pokemons[Pika].current_abilities) = 6
    /\ Len(logged) >= 1 /\ logged[1].step = 1
    /\ logged[1].event[1] = "learned" /\ logged[1].event[2] = Pika
    /\ Len(pokemons[Meow].current_abilities) = 6

\* C22: in every state of every run of step() calls, every agent's mood is
\* one of normal, happy, angry, tired, excited.
C22_MoodInEnumeration ==
    \A k \in DOMAIN pokemons :
        pokemons[k].mood \in {"normal", "happy", "angry", "tired", "excited"}

\* two steps ended, a battle in each: an agent hit by 25 twice is angry at hp
\* 50, the other, hit by 10 twice, is at hp 80 in the mood it started with
C22_Witness ==
    /\ result.kind = "snapshot" /\ step_count = 2
    /\ step_events = << << "Battle", Pika, Meow >> >>
    /\ pokemons[Pika].mood = "angry" /\ pokemons[Pika].hp = 50
    /\ pokemons[Meow].mood = "normal" /\ pokemons[Meow].hp = 80

\* C23: every step keeps the set of agents and their order.  An agent at hp
\* 0 still takes part: a pair it belongs to, within interaction distance, can
\* still resolve into a battle, and in the agent loop it rests at its turn.
\* The step that takes an agent to hp 0 leaves it among the agents, tired,
\* where it stood, with the abilities and the items it had.
C23_NoRemovalAtZeroHp ==
    [][/\ DOMAIN pokemons' = DOMAIN pokemons
       /\ pokemon_list' = pokemon_list
       /\ \A n \in 1..Len(pokemon_list) : pokemon_list[n] \in DOMAIN pokemons
       /\ pc = "pairs" =>
             LET k1 == pokemon_list[pi]
                 k2 == pokemon_list[pj]
             IN  (/\ pokemons[k1].hp = 0 \/ pokemons[k2].hp = 0
                  /\ Band(SquaredDistance(pokemons[k1].position,
                                          pokemons[k2].position)) = "interacting"
                  /\ prob.battle > 0) =>
                    \E d \in InteractionDraws({DamageLo}) :
                        _handle_interaction(World, k1, k2, d).ret
                            = << "Battle", k1, k2 >>
       /\ pc = "agents" =>
             LET k == pokemon_list[pi]
             IN  pokemons[k].hp = 0 =>
                    /\ pokemons'[k].hp >= 3
                    /\ pokemons'[k].energy >= Clamp(0, pokemons[k].energy + 10, 100)
                    /\ pokemons'[k].position = pokemons[k].position
       /\ \A k \in DOMAIN pokemons :
             (pokemons[k].hp > 0 /\ pokemons'[k].hp = 0) =>
                /\ pokemons'[k].mood = "tired"
                /\ SameBody(pokemons'[k], pokemons[k])]_vars

\* the first agent, at hp 0 after a battle of tick 1, rested at its turn,
\* fought again in tick 2, and stands at hp 0 when the agent loop of tick 2
\* comes to it
C23_Witness ==
    /\ step_count = 2 /\ pc = "agents" /\ pi = 1
    /\ pokemons[Pika].hp = 0 /\ pokemons[Pika].mood = "tired"
    /\ pokemons[Pika].energy = 95
    /\ \E m \in 1..Len(logged) :
          logged[m].step = 1 /\ logged[m].event = << "battle", Pika, Meow >>
    /\ step_events = << << "Battle", Pika, Meow >> >>
    /\ DOMAIN pokemons = {Pika, Meow}

\* C24: in every state, every item held in an inventory has its position
\* unset, and every item on the field has a position set.
C24_HeldItemsUnplaced ==
    /\ \A k \in DOMAIN pokemons : \A n \in 1..Len(pokemons[k].inventory) :
          pokemons[k].inventory[n].position = None
    /\ \A n \in 1..Len(items_on_field) : items_on_field[n].position # None

\* C25: get_recent_logs(K) returns exactly the min(K, len(log)) most recent
\* entries of the log, in logging order, for every K >= 0 (none for K = 0),
\* and leaves the log as it was.
C25_RecentLogs ==
    [][Called("get_recent_logs") =>
          LET K == result'.arg
              count == IF K < Len(event_log) THEN K ELSE Len(event_log)
          IN  /\ Len(result'.value) = count
              /\ \A n \in 1..count :
                    result'.value[n] = event_log[Len(event_log) - count + n]
              /\ event_log' = event_log]_vars

\* the pair after the pair (a, b) among n agents, by insertion index
C26_NextPair(a, b, n) ==
    IF b < n THEN << a, b + 1 >>
    ELSE IF a + 1 < n THEN << a + 1, a + 2 >> ELSE << 0, 0 >>

\* what a step of step() does to the pair loop and to the pair it looks at
C26_PairLoop ==
    /\ (pc = "idle" /\ pc' # "idle" /\ Len(pokemon_list) >= 2) =>
          (pc' = "pairs" /\ << pi', pj' >> = << 1, 2 >>)
    /\ pc' = "pairs" => pc \in {"idle", "pairs"}
    /\ pc = "pairs" =>
          LET k1 == pokemon_list[pi]
              k2 == pokemon_list[pj]
              next == C26_NextPair(pi, pj, Len(pokemon_list))
              band == Band(SquaredDistance(pokemons[k1].position,
                                           pokemons[k2].position))
          IN  /\ pi < pj
              /\ IF next = << 0, 0 >> THEN pc' = "agents"
                 ELSE pc' = "pairs" /\ << pi', pj' >> = next
              /\ band = "interacting" =>
                    /\ \A k \in DOMAIN pokemons :
                          pokemons'[k].position = pokemons[k].position
                    /\ step_events' \in
                          {step_events,
                           Append(step_events, << "Battle", k1, k2 >>),
                           Append(step_events, << "Friendship", k1, k2 >>)}
              /\ band = "aware" =>
                    /\ step_events' = step_events /\ logged' = logged
                    /\ \A k \in DOMAIN pokemons \ {k1} : pokemons'[k] = pokemons[k]
              /\ band = "indifferent" =>
                    /\ step_events' = step_events /\ logged' = logged
                    /\ pokemons' = pokemons

\* C26: in each step() every pair of agents is looked at exactly once, in
\* the order of the insertion indices (i < j): the pair loop begins at (1, 2),
\* goes from each pair to the next one, and ends after the last.  A pair goes
\* to exactly one of: the interaction resolver when distance < 1.5 (at most
\* one battle or friendship, of that pair), the awareness rule when
\* 1.5 <= distance < 3.0 (no event, nothing logged, only the first position
\* can change), nothing when distance >= 3.0.
C26_EveryPairOnceInOrder == [][C26_PairLoop]_vars

\* the pair about to be looked at is within awareness distance and out of
\* interaction distance
AwarePair ==
    /\ pc = "pairs"
    /\ Band(SquaredDistance(pokemons[pokemon_list[pi]].position,
                            pokemons[pokemon_list[pj]].position)) = "aware"

\* C27: the awareness rule for a pair (a, b) changes at most the position of
\* a: the position of b, and the hp, energy, mood, abilities, relationships
\* and inventory of both agents are as they were, and nothing is logged and
\* no event is added.
C27_AwarenessMovesOnlyFirst ==
    [][AwarePair =>
          LET a == pokemon_list[pi]
              b == pokemon_list[pj]
          IN  /\ pokemons'[b].position = pokemons[b].position
              /\ \A k \in {a, b} :
                    /\ pokemons'[k].hp = pokemons[k].hp
                    /\ pokemons'[k].energy = pokemons[k].energy
                    /\ pokemons'[k].mood = pokemons[k].mood
                    /\ pokemons'[k].current_abilities = pokemons[k].current_abilities
                    /\ pokemons'[k].relationships = pokemons[k].relationships
                    /\ pokemons'[k].inventory = pokemons[k].inventory
              /\ logged' = logged /\ event_log' = event_log
              /\ step_events' = step_events]_vars

\* the pair was looked at, both agents hostile to each other and the second
\* one tired: the first stands elsewhere, the second where it stood
C27_Witness ==
    /\ pc = "agents" /\ pi = 1 /\ step_count = 1
    /\ RelOf(pokemons, Pika, Meow) = -35 /\ RelOf(pokemons, Meow, Pika) = -35
    /\ pokemons[Meow].mood = "tired"
    /\ pokemons[Pika].position # phase_positions[Pika]
    /\ pokemons[Meow].position = phase_positions[Meow]
    /\ logged = << >> /\ step_events = << >>

\* C28: the awareness rule picks the movement of a by a's own view, in this
\* order: toward b if rel_ab < -30; else toward b if rel_ab > 50; else away
\* from b if a is tired; else none.  A tired agent with rel_ab < -30 or
\* rel_ab > 50 approaches, and the relationship of b toward a plays no role.
C28_AwarenessPrecedence ==
    [][AwarePair =>
          LET a == pokemon_list[pi]
              b == pokemon_list[pj]
              rel_ab == RelOf(pokemons, a, b)
              before == SquaredDistance(pokemons[a].position, pokemons[b].position)
              after == SquaredDistance(pokemons'[a].position, pokemons[b].position)
          IN  IF rel_ab < -30 \/ rel_ab > 50 THEN after < before
              ELSE IF pokemons[a].mood = "tired" THEN after > before
              ELSE pokemons'[a].position = pokemons[a].position]_vars

\* a tired agent with a relationship of 55 toward the other, which is hostile
\* to it, has come closer
C28_Witness ==
    /\ pc = "agents" /\ pi = 1 /\ step_count = 1
    /\ pokemons[Pika].mood = "tired"
    /\ RelOf(pokemons, Pika, Meow) = 55 /\ RelOf(pokemons, Meow, Pika) = -35
    /\ SquaredDistance(pokemons[Pika].position, pokemons[Meow].position)
          < SquaredDistance(phase_positions[Pika], phase_positions[Meow])
    /\ pokemons[Meow].position = phase_positions[Meow]

\* the log lines the step wrote that carry the tag and name the agent
C29_Lines(tag, k) ==
    {n \in (Len(logged) + 1)..Len(logged') :
        logged'[n].event[1] = tag /\ logged'[n].event[2] = k}

\* C29: the individual behaviour of an agent takes one branch, in this
\* order: rest() if energy < 30; else rest() if hp < 40; else a random walk
\* of at most 0.15 on each axis, with a possible practice.  An agent with
\* energy >= 30 and hp >= 40 does not rest (the behaviour leaves its hp and
\* energy as they were); an agent that rests does not move and learns
\* nothing.
C29_OneBehaviourBranch ==
    [][pc = "agents" =>
          LET k == pokemon_list[pi]
              p == pokemons[k]
              q == pokemons'[k]
              rests == p.energy < 30 \/ p.hp < 40
          IN  /\ \A d \in AgentDraws :
                    LET b == _handle_individual_action(World, k, d).pokemons[k]
                    IN  IF rests
                        THEN /\ b.energy = Clamp(0, p.energy + 10, 100)
                             /\ b.hp = Clamp(0, p.hp + 3, 100)
                             /\ b.position = p.position
                             /\ b.current_abilities = p.current_abilities
                        ELSE /\ b.energy = p.energy /\ b.hp = p.hp
                             /\ b.position[1] - p.position[1] \in -3..3
                             /\ b.position[2] - p.position[2] \in -3..3
              /\ rests =>
                    /\ q.position = p.position
                    /\ q.current_abilities = p.current_abilities
                    /\ C29_Lines("learned", k) = {}
              /\ p.energy < 30 => C29_Lines("healing", k) = {}
              /\ (p.energy >= 30 /\ p.hp < 40) => C29_Lines("resting", k) = {}
              /\ ~rests =>
                    /\ C29_Lines("resting", k) = {} /\ C29_Lines("healing", k) = {}
                    /\ q.position[1] - p.position[1] \in -3..3
                    /\ q.position[2] - p.position[2] \in -3..3]_vars

\* an agent at energy 25 and hp 35 rested for its energy in tick 1 and, at
\* energy 35 and hp 38, for its hp in tick 2: it stands where it stood, with
\* the abilities it had
C29_Witness ==
    /\ step_count = 2 /\ pc = "event"
    /\ pokemons[Pika].energy = 45 /\ pokemons[Pika].hp = 41
    /\ pokemons[Pika].position = Near1
    /\ pokemons[Pika].current_abilities = BaseAbilities
    /\ Len(logged) = 2
    /\ logged[1] = [step |-> 1, event |-> << "resting", Pika >>]
    /\ logged[2] = [step |-> 2, event |-> << "healing", Pika >>]

\* C30: take_damage(amount) sets hp to max(0, hp - amount), lowers energy by
\* 5 (not below 0), and sets the mood by the hp it leaves: tired when that hp
\* is below 30, otherwise angry when it is below 60, otherwise the mood is as
\* it was.  Nothing else of the agent changes.
C30_TakeDamage ==
    [][Called("take_damage") =>
          LET amount == result'.arg
              hp == IF Before.hp - amount < 0 THEN 0 ELSE Before.hp - amount
          IN  /\ After.hp = hp
              /\ After.energy = (IF Before.energy - 5 < 0 THEN 0 ELSE Before.energy - 5)
              /\ After.mood = (IF hp < 30 THEN "tired"
                               ELSE IF hp < 60 THEN "angry" ELSE Before.mood)
              /\ SameBody(After, Before)
              /\ After.relationships = Before.relationships]_vars

\* a happy agent took damage twice, the second time 15: it is still happy at
\* hp 60, where no threshold is met, and its energy is held at 0
C30_Witness ==
    /\ result.kind = "take_damage" /\ calls = 2 /\ result.arg = 15
    /\ pokemons[Pika].hp = 60 /\ pokemons[Pika].mood = "happy"
    /\ pokemons[Pika].energy = 0

---------------------------------------------------------------------------
(* Claims on the agent's mutators (MutatorSpec) *)

\* C31: rest() raises energy by 10 and hp by 3, neither above 100, sets the
\* mood to normal exactly when the energy it leaves is above 80 and leaves the
\* mood as it was otherwise, and changes nothing else of the agent.
C31_Rest ==
    [][Called("rest") =>
          LET energy == IF Before.energy + 10 > 100 THEN 100 ELSE Before.energy + 10
          IN  /\ After.energy = energy
              /\ After.hp = (IF Before.hp + 3 > 100 THEN 100 ELSE Before.hp + 3)
              /\ After.mood = (IF energy > 80 THEN "normal" ELSE Before.mood)
              /\ SameBody(After, Before)
              /\ After.relationships = Before.relationships]_vars

\* an angry agent rested from energy 70 to 80, still angry at hp 100, and
\* again to 90, which made its mood normal
C31_Witness ==
    /\ result.kind = "rest" /\ calls = 2
    /\ pokemons[Pika].energy = 90 /\ pokemons[Pika].hp = 100
    /\ pokemons[Pika].mood = "normal"
    /\ pokemons[Pika].inventory = << Item(1, "Oran") >>


\* C32: used on an agent, an item of kind mood sets the mood to happy when it
\* was angry or tired and to excited otherwise, and leaves hp and energy as
\* they were; an item of kind mixed adds floor(effect_value / 2) to hp and to
\* energy, neither above 100.
C32_ItemUse ==
    [][Called("use") =>
          LET item == result'.arg
              half == item.effect_value \div 2
          IN  /\ item.effect_type = "mood" =>
                    /\ After.mood = (IF Before.mood \in {"angry", "tired"}
                                     THEN "happy" ELSE "excited")
                    /\ After.hp = Before.hp
                    /\ After.energy = Before.energy
              /\ item.effect_type = "mixed" =>
                    /\ After.hp = (IF Before.hp + half > 100 THEN 100
                                   ELSE Before.hp + half)
                    /\ After.energy = (IF Before.energy + half > 100 THEN 100
                                       ELSE Before.energy + half)]_vars

\* a tired agent at hp 0 and energy 70 used the mixed item of value 25, which
\* gave 12 of each, and then the mood item, which made it happy
C32_Witness ==
    /\ result.kind = "use" /\ calls = 2
    /\ result.arg.effect_type = "mood"
    /\ pokemons[Pika].hp = 12 /\ pokemons[Pika].energy = 82
    /\ pokemons[Pika].mood = "happy"


\* C34: move_towards and move_away called with a target equal to the agent's
\* own position (distance exactly 0) leave the position as it was and raise
\* no error.
C34_ZeroDistanceMove ==
    [][(/\ Called("move_towards") \/ Called("move_away")
        /\ result'.arg = Before.position)
          => /\ After = Before
             /\ result'.value = None]_vars

\* the agent moved toward << 140, 100 >> from << 100, 100 >> and was then told
\* to move away from the very place it stands on
C34_Witness ==
    /\ result.kind = "move_away" /\ calls = 2
    /\ result.arg = << 106, 100 >>
    /\ pokemons[Pika].position = << 106, 100 >>


---------------------------------------------------------------------------
(* Claims on the random world event (EventSpec) *)

\* the agent differs from what it was in its position at most
C33_OnlyMoved(k) ==
    pokemons'[k] = [pokemons[k] EXCEPT !.position = pokemons'[k].position]

\* C33: a random world event does nothing (no log entry, no movement, nothing
\* returned) when the context source has no scenario; otherwise it logs one
\* scenario of the list and changes at most the position of the first of the
\* two distinct agents sampled, every other agent and all vitals, moods and
\* relationships being as they were; among fewer than two agents nobody moves.
C33_RandomEvent ==
    [][Called("_trigger_random_event") =>
          LET d == result'.arg
          IN  IF rag_scenarios = << >>
              THEN /\ result'.value = None
                   /\ pokemons' = pokemons
                   /\ event_log' = event_log
                   /\ logged' = logged
              ELSE /\ \E n \in 1..Len(rag_scenarios) :
                         /\ logged' = Append(logged,
                               [step |-> step_count,
                                event |-> << "random_event", rag_scenarios[n] >>])
                         /\ result'.value = << "Random Event", rag_scenarios[n] >>
                   /\ Len(pokemon_list) < 2 => pokemons' = pokemons
                   /\ Len(pokemon_list) >= 2 =>
                         /\ d.first # d.second
                         /\ C33_OnlyMoved(pokemon_list[d.first])
                         /\ \A k \in DOMAIN pokemons :
                               k # pokemon_list[d.first] => pokemons'[k] = pokemons[k]]_vars

\* among three agents one event was logged, and the second agent of the list
\* went 0.5 toward the third; the others stand where they stood
C33_Witness ==
    /\ result.kind = "_trigger_random_event" /\ calls = 1
    /\ Len(pokemon_list) = 3
    /\ Len(event_log) = 1
    /\ result.value = << "Random Event", "festival" >>
    /\ pokemons[Meow].position = << 120, 100 >>
    /\ pokemons[Pika] = EventPika
    /\ pokemons[Sprig] = EventSprig


---------------------------------------------------------------------------
(* Claims on the places of an item (ForageSpec) *)

\* the identities of the items of a list
C35_Ids(items) == {items[n].id : n \in 1..Len(items)}
\* the first word of a line Item.use returns
C35_UseLines ==
    {"hp_restored", "energy_restored", "mood_better", "cheered_up", "recovered", "used"}

\* no item is at two places: the field and the inventories are lists without
\* a repeated item, and no two of them share an item
C35_OnePlace ==
    /\ NoDuplicates([n \in 1..Len(items_on_field) |-> items_on_field[n].id])
    /\ \A k \in DOMAIN pokemons :
          /\ NoDuplicates([n \in 1..Len(pokemons[k].inventory) |->
                              pokemons[k].inventory[n].id])
          /\ C35_Ids(pokemons[k].inventory) \cap C35_Ids(items_on_field) = {}
          /\ \A o \in DOMAIN pokemons \ {k} :
                C35_Ids(pokemons[k].inventory) \cap C35_Ids(pokemons[o].inventory) = {}
    /\ \A id \in C35_Ids(items_on_field) : id < next_item   \* made before now
    /\ \A k \in DOMAIN pokemons : \A id \in C35_Ids(pokemons[k].inventory) : id < next_item

\* an item comes to the field newly made only, and leaves it only to the agent
\* whose turn it is, into its inventory or used by it at once
C35_Moves ==
    /\ next_item' >= next_item
    /\ \A id \in C35_Ids(items_on_field') \ C35_Ids(items_on_field) : id >= next_item
    /\ \A id \in C35_Ids(items_on_field) \ C35_Ids(items_on_field') :
          /\ pc = "agents"
          /\ LET k == pokemon_list[pi]
             IN  /\ \A o \in DOMAIN pokemons \ {k} :
                       id \notin C35_Ids(pokemons'[o].inventory)
                 /\ \/ id \in C35_Ids(pokemons'[k].inventory)
                    \/ \E m \in (Len(logged) + 1)..Len(logged') :
                          /\ logged'[m].step = step_count
                          /\ logged'[m].event[1] \in C35_UseLines
                          /\ logged'[m].event[2] = k

\* C35: every item is in at most one place at any time: an item on the field
\* is in no inventory, an item is in at most one inventory and at most once,
\* and an item that was picked up or consumed never comes back to the field;
\* a pickup moves the item from the field to the agent that picks it (into its
\* inventory or consumed at once) within that step.
C35_ItemInOnePlace == []C35_OnePlace /\ [][C35_Moves]_vars

\* the second forager picked the item made in tick 1 up from the field, which
\* is empty again, and holds it; the first forager holds its three
C35_Witness ==
    /\ pc = "idle" /\ step_count = 1
    /\ items_on_field = << >>
    /\ 10 \in C35_Ids(pokemons[Meow].inventory)
    /\ WasLogged(<< "picked", Meow, "Oran" >>)
    /\ C35_Ids(pokemons[Pika].inventory) = {1, 2, 3}


---------------------------------------------------------------------------
(* Claims on the relationships over runs of step() (BondSpec, FeudSpec) *)

\* C36: starting from agents with empty relationship maps, in every state
\* step() calls reach the relationship is symmetric: for every two agents a
\* and b, get_relationship of a toward b equals get_relationship of b toward
\* a, an entry is on one side exactly when it is on the other, and no agent
\* stores a relationship toward itself.
C36_SymmetricRelationships ==
    \A a \in DOMAIN pokemons :
        /\ a \notin DOMAIN pokemons[a].relationships
        /\ \A b \in DOMAIN pokemons :
              /\ get_relationship(pokemons[a], b) = get_relationship(pokemons[b], a)
              /\ (b \in DOMAIN pokemons[a].relationships)
                    = (a \in DOMAIN pokemons[b].relationships)

\* after a battle in tick 1 and a friendship in tick 2 the first two agents
\* stand at 5 toward each other, and the third has met nobody
C36_Witness ==
    /\ step_count = 2 /\ pc = "idle"
    /\ pokemons[Pika].relationships = Rel(Meow, 5)
    /\ pokemons[Meow].relationships = Rel(Pika, 5)
    /\ pokemons[Sprig].relationships = NoRel

\* the step looked at a pair and added an event of the kind to the events of
\* the tick
C37_Occurs(kind) ==
    /\ pc = "pairs"
    /\ Len(step_events') = Len(step_events) + 1
    /\ step_events'[Len(step_events')][1] = kind

\* no step raises a relationship that is below -30 or lowers one that is
\* above 30, and the pair looked at has no friendship in the first case and
\* no battle in the second
C37_Step ==
    /\ \A a \in DOMAIN pokemons : \A b \in DOMAIN pokemons \ {a} :
          /\ RelOf(pokemons, a, b) < -30 =>
                RelOf(pokemons', a, b) <= RelOf(pokemons, a, b)
          /\ RelOf(pokemons, a, b) > 30 =>
                RelOf(pokemons', a, b) >= RelOf(pokemons, a, b)
    /\ pc = "pairs" =>
          LET relationship == RelOf(pokemons, pokemon_list[pi], pokemon_list[pj])
          IN  /\ relationship < -30 => ~C37_Occurs("Friendship")
              /\ relationship > 30 => ~C37_Occurs("Battle")

\* C37: over runs of step() started from empty relationship maps hostility
\* and friendliness are absorbing: once the relationship between two agents is
\* below -30 no later step raises it (only battles can occur between them),
\* and once it is above 30 no later step lowers it (only friendships can occur
\* between them).
C37_HostilityAndFriendlinessAbsorb == [][C37_Step]_vars

\* the pair at -30 battled in tick 1, which made it hostile at -35, and again
\* in tick 2
C37_Witness ==
    /\ step_count = 2 /\ pc = "idle"
    /\ pokemons[Pika].relationships = Rel(Meow, -40)
    /\ pokemons[Meow].relationships = Rel(Pika, -40)
    /\ step_events = << << "Battle", Pika, Meow >> >>


---------------------------------------------------------------------------
(* Claims on recovery (RecoverLive) *)

\* the agent is low: _handle_individual_action makes it rest
C38_Low(p) == p.energy < 30 \/ p.hp < 40

\* in its individual phase a low agent rests: hp + 3 and energy + 10, neither
\* above 100
C38_RestsWhenLow ==
    (pc = "agents" /\ C38_Low(pokemons[pokemon_list[pi]])) =>
        LET p == pokemons[pokemon_list[pi]]
            q == pokemons'[pokemon_list[pi]]
        IN  /\ q.hp = (IF p.hp + 3 > 100 THEN 100 ELSE p.hp + 3)
            /\ q.energy = (IF p.energy + 10 > 100 THEN 100 ELSE p.energy + 10)

---------------------------------------------------------------------------
(* Claims on the tick counter (Spec) *)

\* the ticks of the log entries do not decrease from the oldest to the newest
\* and none is above the tick counter
C39_LogTags ==
    \A n \in 1..Len(event_log) :
        /\ event_log[n].step <= step_count
        /\ n > 1 => event_log[n - 1].step <= event_log[n].step

\* a call of step() adds exactly 1 to the tick counter where it begins,
\* leaves it alone afterwards, and ends returning a snapshot whose step is
\* the counter
C39_Tick ==
    /\ step_count' = (IF pc = "idle" THEN step_count + 1 ELSE step_count)
    /\ (pc # "idle" /\ pc' = "idle") =>
          /\ result'.kind = "snapshot"
          /\ result'.step = step_count'

\* C39: each step() increases the tick counter by exactly 1 and returns that
\* value as the step number of its snapshot; the tick numbers on the entries
\* of the event log do not decrease from the oldest to the newest and never
\* exceed the tick counter.
C39_TickCounterAndLogTags == []C39_LogTags /\ [][C39_Tick]_vars

====
